---------------------------- MODULE Spec2Model ----------------------------
(***************************************************************************)
(* A model of the MSVC symbol demangler of src/src/main.rs.                *)
(*                                                                         *)
(* demangle() is modelled as a state machine.  The recursive-descent       *)
(* parser (ParserState) runs on an explicit call stack: one frame per      *)
(* activation of parse, read_name, read_params, read_var_type,             *)
(* read_func_ptr and read_nested_array, one action per stretch of code     *)
(* between two calls.  The functions that do not recurse (consume,         *)
(* read_number, read_string, read_operator, ...) are operators on the      *)
(* remaining input.  The printer (serialize, write_pre, write_post,        *)
(* write_name, write_params) runs on a list of pending activations.        *)
(*                                                                         *)
(* Byte strings are TLA+ strings; the inputs are ASCII, so the UTF-8       *)
(* checks of the code (str::from_utf8, String::from_utf8) always succeed   *)
(* and the println! traces have no effect on the result.                   *)
(***************************************************************************)
EXTENDS Integers, Sequences, FiniteSets, TLC

VARIABLES
    mangled,          \* the &str given to demangle
    profile,          \* "debug" (overflow checks on) or "release" (wrapping)
    input,            \* ParserState::input, the bytes not yet consumed
    memorized_names,  \* ParserState::memorized_names
    stack,            \* the parser's call stack, the running activation first
    ret,              \* the value the last finished activation returned
    parse_result,     \* the ParseResult handed to serialize, once parsed
    todo,             \* the printer's pending activations, the next one first
    w,                \* the output buffer of serialize
    result,           \* what demangle returned: Ok(String), Err or a panic
    returned          \* the inputs and results of the calls made before

vars == <<mangled, profile, input, memorized_names, stack, ret,
          parse_result, todo, w, result, returned>>

---------------------------------------------------------------------------
(* Option<T> and byte-string helpers                                       *)

None == <<>>

Some(x) == <<x>>

Range(s) == {s[i] : i \in 1..Len(s)}

At(s, i) == SubSeq(s, i, i)

\* <[u8]>::starts_with
StartsWith(s, p) == Len(s) >= Len(p) /\ SubSeq(s, 1, Len(p)) = p

\* <[u8]>::last
LastByte(s) == IF Len(s) = 0 THEN None ELSE Some(At(s, Len(s)))

Digits == {"0", "1", "2", "3", "4", "5", "6", "7", "8", "9"}

DigitVal == [c \in Digits |->
    CASE c = "0" -> 0 [] c = "1" -> 1 [] c = "2" -> 2 [] c = "3" -> 3
      [] c = "4" -> 4 [] c = "5" -> 5 [] c = "6" -> 6 [] c = "7" -> 7
      [] c = "8" -> 8 [] c = "9" -> 9]

DigitChar == [d \in 0..9 |-> CHOOSE c \in Digits : DigitVal[c] = d]

\* b'A'...b'P'
HexLetters == {"A", "B", "C", "D", "E", "F", "G", "H",
               "I", "J", "K", "L", "M", "N", "O", "P"}

HexVal == [c \in HexLetters |->
    CASE c = "A" -> 0 [] c = "B" -> 1 [] c = "C" -> 2 [] c = "D" -> 3
      [] c = "E" -> 4 [] c = "F" -> 5 [] c = "G" -> 6 [] c = "H" -> 7
      [] c = "I" -> 8 [] c = "J" -> 9 [] c = "K" -> 10 [] c = "L" -> 11
      [] c = "M" -> 12 [] c = "N" -> 13 [] c = "O" -> 14 [] c = "P" -> 15]

Letters == {"a", "b", "c", "d", "e", "f", "g", "h", "i", "j", "k", "l", "m",
            "n", "o", "p", "q", "r", "s", "t", "u", "v", "w", "x", "y", "z",
            "A", "B", "C", "D", "E", "F", "G", "H", "I", "J", "K", "L", "M",
            "N", "O", "P", "Q", "R", "S", "T", "U", "V", "W", "X", "Y", "Z"}

\* i32::MIN
I32Min == -2147483647 - 1

\* (ret << 4) + nibble on an i32: the shift drops the four high bits without
\* any overflow check, and the sum cannot overflow (the low nibble is zero).
Shl4Add(acc, nibble) ==
    LET low == acc % 268435456
    IN  IF low >= 134217728
        THEN ((low - 134217728) * 16 + I32Min) + nibble
        ELSE low * 16 + nibble

\* format!("{}", n) of an i32
RECURSIVE NatToStr(_)
NatToStr(n) ==
    IF n < 10 THEN DigitChar[n] ELSE NatToStr(n \div 10) \o DigitChar[n % 10]

IntToStr(n) ==
    IF n >= 0 THEN NatToStr(n)
    ELSE IF n = I32Min THEN "-2147483648"
    ELSE "-" \o NatToStr(-n)

---------------------------------------------------------------------------
(* ParserState: the readers that do not recurse.  Each takes the remaining *)
(* input s and yields st ("ok" | "err" | "panic"), the value read and the  *)
(* input left (rest).                                                      *)

Ok(v, r) == [st |-> "ok", val |-> v, rest |-> r]

Err(msg) == [st |-> "err", err |-> msg]

Panic(msg) == [st |-> "panic", err |-> msg]

\* ParserState::peek
peek(s) == IF Len(s) = 0 THEN None ELSE Some(At(s, 1))

\* ParserState::trim
trim(s, len) == SubSeq(s, len + 1, Len(s))

\* ParserState::get
get(s) ==
    IF Len(s) = 0 THEN Err("unexpected end of input")
    ELSE Ok(At(s, 1), trim(s, 1))

\* ParserState::consume: the input left (unchanged when s does not match)
consume(s, p) == IF StartsWith(s, p) THEN trim(s, Len(p)) ELSE s

\* ParserState::consume_digit
consume_digit(s) ==
    IF Len(s) > 0 /\ At(s, 1) \in Digits
    THEN [val |-> Some(DigitVal[At(s, 1)]), rest |-> trim(s, 1)]
    ELSE [val |-> None, rest |-> s]

\* -(ret as i32): the debug profile panics on i32::MIN, release wraps
Negate(neg, v, prof) ==
    IF ~neg THEN [st |-> "ok", val |-> v]
    ELSE IF v = I32Min
         THEN IF prof = "debug"
              THEN Panic("attempt to negate with overflow")
              ELSE [st |-> "ok", val |-> I32Min]
         ELSE [st |-> "ok", val |-> -v]

\* the for loop of read_number were it to pass over the bytes that are
\* neither b'@' nor letters of A..P
RECURSIVE HexRun_SkippingOthers(_, _, _)
HexRun_SkippingOthers(s, i, acc) ==
    IF i > Len(s) THEN Err("bad number")
    ELSE IF At(s, i) = "@" THEN [st |-> "ok", val |-> acc, used |-> i]
    ELSE IF At(s, i) \in HexLetters
         THEN HexRun_SkippingOthers(s, i + 1, Shl4Add(acc, HexVal[At(s, i)]))
    ELSE HexRun_SkippingOthers(s, i + 1, acc)

\* the for loop of read_number over the bytes of s from position i
RECURSIVE HexRun(_, _, _)
HexRun(s, i, acc) ==
    IF i > Len(s) THEN Err("bad number")
    ELSE IF At(s, i) = "@" THEN [st |-> "ok", val |-> acc, used |-> i]
    ELSE IF At(s, i) \in HexLetters
         THEN HexRun(s, i + 1, Shl4Add(acc, HexVal[At(s, i)]))
    ELSE Err("bad number")

\* read_number were a digit d to stand for d
read_number_digit_as_written(s, prof) ==
    LET neg == StartsWith(s, "?")
        s1  == consume(s, "?")
        d   == consume_digit(s1)
    IN  IF d.val # None
        THEN Ok(IF neg THEN -d.val[1] ELSE d.val[1], d.rest)
        ELSE LET run == HexRun(s1, 1, 0)
             IN  IF run.st # "ok" THEN run
                 ELSE LET n == Negate(neg, run.val, prof)
                      IN  IF n.st # "ok" THEN n
                          ELSE Ok(n.val, trim(s1, run.used))

\* ParserState::read_number
read_number(s, prof) ==
    LET neg == StartsWith(s, "?")
        s1  == consume(s, "?")
        d   == consume_digit(s1)
    IN  IF d.val # None
        THEN Ok(IF neg THEN -(d.val[1] + 1) ELSE d.val[1] + 1, d.rest)
        ELSE LET run == HexRun(s1, 1, 0)
             IN  IF run.st # "ok" THEN run
                 ELSE LET n == Negate(neg, run.val, prof)
                      IN  IF n.st # "ok" THEN n
                          ELSE Ok(n.val, trim(s1, run.used))

\* ParserState::read_string
read_string(s) ==
    IF \E i \in 1..Len(s) : At(s, i) = "@"
    THEN LET pos == CHOOSE i \in 1..Len(s) :
                        /\ At(s, i) = "@"
                        /\ \A j \in 1..(i - 1) : At(s, j) # "@"
         IN  Ok(SubSeq(s, 1, pos - 1), trim(s, pos))
    ELSE Err("read_string: missing b'@'")

\* memorize_string without the limit of 10 names
memorize_string_unbounded(names, s) ==
    IF s \notin Range(names) THEN Append(names, s) ELSE names

\* memorize_string without the search for the name
memorize_string_unchecked(names, s) ==
    IF Len(names) < 10 THEN Append(names, s) ELSE names

\* memorize_string were the new name put before the others
memorize_string_in_front(names, s) ==
    IF Len(names) < 10 /\ s \notin Range(names)
    THEN <<s>> \o names
    ELSE names

\* ParserState::memorize_string: the names memorized afterwards
memorize_string(names, s) ==
    IF Len(names) < 10 /\ s \notin Range(names)
    THEN Append(names, s)
    ELSE names

\* the match of read_operator_name on the first byte
OperatorTable ==
    [c \in {"0", "1", "2", "3", "4", "5", "6", "7", "8", "9", "A", "C", "D",
            "E", "F", "G", "H", "I", "J", "K", "L", "M", "N", "O", "P", "Q",
            "R", "S", "T", "U", "V", "W", "X", "Y", "Z"} |->
    CASE c = "0" -> "ctor"  [] c = "1" -> "dtor" [] c = "2" -> " new"
      [] c = "3" -> " delete" [] c = "4" -> "="  [] c = "5" -> ">>"
      [] c = "6" -> "<<"    [] c = "7" -> "!"    [] c = "8" -> "=="
      [] c = "9" -> "!="    [] c = "A" -> "[]"   [] c = "C" -> "->"
      [] c = "D" -> "*"     [] c = "E" -> "++"   [] c = "F" -> "--"
      [] c = "G" -> "-"     [] c = "H" -> "+"    [] c = "I" -> "&"
      [] c = "J" -> "->*"   [] c = "K" -> "/"    [] c = "L" -> "%"
      [] c = "M" -> "<"     [] c = "N" -> "<="   [] c = "O" -> ">"
      [] c = "P" -> ">="    [] c = "Q" -> ","    [] c = "R" -> "()"
      [] c = "S" -> "~"     [] c = "T" -> "^"    [] c = "U" -> "|"
      [] c = "V" -> "&&"    [] c = "W" -> "||"   [] c = "X" -> "*="
      [] c = "Y" -> "+="    [] c = "Z" -> "-="]

\* the match of read_operator_name on the byte after b'_'
OperatorTable2 ==
    [c \in {"0", "1", "2", "3", "4", "5", "6", "U", "V"} |->
    CASE c = "0" -> "/="  [] c = "1" -> "%="  [] c = "2" -> ">>="
      [] c = "3" -> "<<=" [] c = "4" -> "&="  [] c = "5" -> "|="
      [] c = "6" -> "^="  [] c = "U" -> " new[]" [] c = "V" -> " delete[]"]

\* ParserState::read_operator_name
read_operator_name(s) ==
    LET g == get(s)
    IN  IF g.st # "ok" THEN g
        ELSE IF g.val \in DOMAIN OperatorTable
             THEN Ok(OperatorTable[g.val], g.rest)
        ELSE IF g.val = "_"
             THEN LET h == get(g.rest)
                  IN  IF h.st # "ok" THEN h
                      ELSE IF h.val \in DOMAIN OperatorTable2
                           THEN Ok(OperatorTable2[h.val], h.rest)
                      ELSE IF h.val = "_" /\ StartsWith(h.rest, "L")
                           THEN Ok(" co_await", trim(h.rest, 1))
                      ELSE Err("unknown operator name")
        ELSE Err("unknown operator name")

\* read_operator were the class name after the operator not memorized
read_operator_forgetting_class(s, names) ==
    LET o == read_operator_name(s)
    IN  IF o.st # "ok" THEN o
        ELSE IF peek(o.rest) # Some("@")
             THEN LET r == read_string(o.rest)
                  IN  IF r.st # "ok" THEN r
                      ELSE [st |-> "ok", val |-> <<o.val, Some(r.val)>>,
                            rest |-> r.rest, names |-> names]
             ELSE [st |-> "ok", val |-> <<o.val, None>>, rest |-> o.rest,
                   names |-> names]

\* ParserState::read_operator: val is <<op, Option<name>>>, names the
\* memorized names afterwards
read_operator(s, names) ==
    LET o == read_operator_name(s)
    IN  IF o.st # "ok" THEN o
        ELSE IF peek(o.rest) # Some("@")
             THEN LET r == read_string(o.rest)
                  IN  IF r.st # "ok" THEN r
                      ELSE [st |-> "ok", val |-> <<o.val, Some(r.val)>>,
                            rest |-> r.rest,
                            names |-> memorize_string(names, r.val)]
             ELSE [st |-> "ok", val |-> <<o.val, None>>, rest |-> o.rest,
                   names |-> names]

\* the bytes read_func_class accepts
FuncClassBytes ==
    {"A", "B", "C", "D", "E", "F", "I", "J", "K", "L", "M", "N",
     "Q", "R", "S", "T", "U", "V", "Y", "Z"}

\* ParserState::read_func_class (the FuncClass read is discarded by parse)
read_func_class(s) ==
    LET g == get(s)
    IN  IF g.st # "ok" THEN g
        ELSE IF g.val \in FuncClassBytes THEN Ok(g.val, g.rest)
        ELSE Err("unknown func class")

\* read_func_access_class were b'C' to mean const as well
read_func_access_class_const_for_volatile(s) ==
    CASE peek(s) = Some("A") -> [val |-> {}, rest |-> trim(s, 1)]
      [] peek(s) \in {Some("B"), Some("C")} ->
            [val |-> {"CONST"}, rest |-> trim(s, 1)]
      [] peek(s) = Some("D") ->
            [val |-> {"CONST", "VOLATILE"}, rest |-> trim(s, 1)]
      [] OTHER -> [val |-> {}, rest |-> s]

\* ParserState::read_func_access_class
read_func_access_class(s) ==
    CASE peek(s) = Some("A") -> [val |-> {}, rest |-> trim(s, 1)]
      [] peek(s) = Some("B") -> [val |-> {"CONST"}, rest |-> trim(s, 1)]
      [] peek(s) = Some("C") -> [val |-> {"VOLATILE"}, rest |-> trim(s, 1)]
      [] peek(s) = Some("D") ->
            [val |-> {"CONST", "VOLATILE"}, rest |-> trim(s, 1)]
      [] OTHER -> [val |-> {}, rest |-> s]

\* the bytes read_calling_conv accepts
CallingConvBytes == {"A", "B", "C", "E", "G", "I"}

\* read_calling_conv were every byte to name a calling convention
read_calling_conv_of_any_byte(s) ==
    LET g == get(s)
    IN  IF g.st # "ok" THEN g ELSE Ok(g.val, g.rest)

\* ParserState::read_calling_conv (the CallingConv read is discarded)
read_calling_conv(s) ==
    LET g == get(s)
    IN  IF g.st # "ok" THEN g
        ELSE IF g.val \in CallingConvBytes THEN Ok(g.val, g.rest)
        ELSE Err("unknown calling conv")

\* read_storage_class were it to consume the byte it does not recognize
read_storage_class_consuming_any_byte(s) ==
    CASE peek(s) = Some("A") -> [val |-> {}, rest |-> trim(s, 1)]
      [] peek(s) = Some("B") -> [val |-> {"CONST"}, rest |-> trim(s, 1)]
      [] peek(s) = Some("C") -> [val |-> {"VOLATILE"}, rest |-> trim(s, 1)]
      [] peek(s) = Some("D") ->
            [val |-> {"CONST", "VOLATILE"}, rest |-> trim(s, 1)]
      [] peek(s) = Some("E") -> [val |-> {"FAR"}, rest |-> trim(s, 1)]
      [] peek(s) = Some("F") -> [val |-> {"CONST", "FAR"}, rest |-> trim(s, 1)]
      [] peek(s) = Some("G") ->
            [val |-> {"VOLATILE", "FAR"}, rest |-> trim(s, 1)]
      [] peek(s) = Some("H") ->
            [val |-> {"CONST", "VOLATILE", "FAR"}, rest |-> trim(s, 1)]
      [] OTHER -> [val |-> {}, rest |-> trim(s, 1)]

\* ParserState::read_storage_class
read_storage_class(s) ==
    CASE peek(s) = Some("A") -> [val |-> {}, rest |-> trim(s, 1)]
      [] peek(s) = Some("B") -> [val |-> {"CONST"}, rest |-> trim(s, 1)]
      [] peek(s) = Some("C") -> [val |-> {"VOLATILE"}, rest |-> trim(s, 1)]
      [] peek(s) = Some("D") ->
            [val |-> {"CONST", "VOLATILE"}, rest |-> trim(s, 1)]
      [] peek(s) = Some("E") -> [val |-> {"FAR"}, rest |-> trim(s, 1)]
      [] peek(s) = Some("F") -> [val |-> {"CONST", "FAR"}, rest |-> trim(s, 1)]
      [] peek(s) = Some("G") ->
            [val |-> {"VOLATILE", "FAR"}, rest |-> trim(s, 1)]
      [] peek(s) = Some("H") ->
            [val |-> {"CONST", "VOLATILE", "FAR"}, rest |-> trim(s, 1)]
      [] OTHER -> [val |-> {}, rest |-> s]

\* ParserState::read_storage_class_for_return
read_storage_class_for_return(s) ==
    IF ~StartsWith(s, "?") THEN Ok({}, s)
    ELSE LET g == get(trim(s, 1))
         IN  IF g.st # "ok" THEN g
             ELSE CASE g.val = "A" -> Ok({}, g.rest)
                    [] g.val = "B" -> Ok({"CONST"}, g.rest)
                    [] g.val = "C" -> Ok({"VOLATILE"}, g.rest)
                    [] g.val = "D" -> Ok({"CONST", "VOLATILE"}, g.rest)
                    [] OTHER -> Err("unknown storage class")

\* the single-byte primitive types of read_var_type
PrimitiveTable ==
    [c \in {"X", "D", "C", "E", "F", "G", "H", "I", "J", "K", "M", "N", "O"} |->
    CASE c = "X" -> "Void"  [] c = "D" -> "Char"   [] c = "C" -> "Schar"
      [] c = "E" -> "Uchar" [] c = "F" -> "Short"  [] c = "G" -> "Ushort"
      [] c = "H" -> "Int"   [] c = "I" -> "Uint"   [] c = "J" -> "Long"
      [] c = "K" -> "Ulong" [] c = "M" -> "Float"  [] c = "N" -> "Double"
      [] c = "O" -> "Ldouble"]

\* the primitive types read_var_type reads after b'_'
PrimitiveTable2 ==
    [c \in {"N", "J", "K", "W"} |->
    CASE c = "N" -> "Bool" [] c = "J" -> "Int64" [] c = "K" -> "Uint64"
      [] c = "W" -> "Wchar"]

\* the qualifier of the innermost level of read_nested_array
read_array_storage_class(s) ==
    IF StartsWith(s, "$$C")
    THEN LET r == trim(s, 3)
         IN  IF StartsWith(r, "B") THEN Ok({"CONST"}, trim(r, 1))
             ELSE IF StartsWith(r, "C") \/ StartsWith(r, "D")
                  THEN Ok({"CONST", "VOLATILE"}, trim(r, 1))
             ELSE IF ~StartsWith(r, "A") THEN Err("unknown storage class")
             ELSE Ok({}, trim(r, 1))
    ELSE Ok({}, s)

---------------------------------------------------------------------------
(* The declaration AST                                                     *)

\* struct Name
Name(name_str, op, template_params) ==
    [name_str |-> name_str, op |-> op, template_params |-> template_params]

\* Type::None
TypeNone == [tag |-> "None"]

\* Type::Void(sc) ... Type::Ldouble(sc)
Primitive(tag, sc) == [tag |-> tag, sc |-> sc]

\* Type::Ptr(inner, sc), Type::Ref(inner, sc)
Pointer(tag, inner, sc) == [tag |-> tag, inner |-> inner, sc |-> sc]

\* Type::Array(len, inner, sc)
Array(len, inner, sc) == [tag |-> "Array", len |-> len, inner |-> inner, sc |-> sc]

\* Type::Struct / Union / Class / Enum (names, sc)
Named(tag, names, sc) == [tag |-> tag, names |-> names, sc |-> sc]

\* Type::MemberFunction / NonMemberFunction (params, sc, return type)
Function(tag, params, sc, return_type) ==
    [tag |-> tag, params |-> params, sc |-> sc, inner |-> return_type]

FunctionTags == {"MemberFunction", "NonMemberFunction"}

PointerTags == {"Ptr", "Ref"}

NamedTags == {"Struct", "Union", "Class", "Enum"}

---------------------------------------------------------------------------
(* The parser's activations                                                *)

ParseFrame ==
    [fn |-> "parse", pc |-> "start", symbol |-> <<>>,
     return_type |-> TypeNone, access_class |-> {}]

ReadNameFrame ==
    [fn |-> "read_name", pc |-> "loop", names |-> <<>>, name |-> "", op |-> ""]

\* an activation of read_params that starts with the types memorized by the
\* list it is nested in
ReadParamsFrame_Inherited ==
    LET outer == {i \in DOMAIN stack : stack[i].fn = "read_params"}
        nearest == CHOOSE i \in outer : \A j \in outer : i <= j
    IN  [fn |-> "read_params", pc |-> "loop",
         backref |-> IF outer = {} THEN <<>> ELSE stack[nearest].backref,
         params |-> <<>>, len |-> 0]

\* backref and params start empty in every activation of read_params
ReadParamsFrame ==
    [fn |-> "read_params", pc |-> "loop", backref |-> <<>>, params |-> <<>>,
     len |-> 0]

ReadVarTypeFrame(sc) ==
    [fn |-> "read_var_type", pc |-> "start", sc |-> sc, tag |-> ""]

ReadFuncPtrFrame(sc) ==
    [fn |-> "read_func_ptr", pc |-> "return_type", sc |-> sc,
     return_type |-> TypeNone]

ReadNestedArrayFrame(dimension) ==
    [fn |-> "read_nested_array", pc |-> "start", dimension |-> dimension,
     len |-> 0, storage_class |-> {}]

Top == stack[1]

\* the running activation is fn, at the place pc
At_(fn, pc) ==
    /\ result.st = "running"
    /\ Len(stack) > 0
    /\ Top.fn = fn
    /\ Top.pc = pc

\* the running activation is at pc and its callee has returned
Returned(fn, pc) == At_(fn, pc) /\ ret # None

\* the running activation is at pc and is not waiting for a callee
Running(fn, pc) == At_(fn, pc) /\ ret = None

\* the ? operator on an Err (or a panic): every activation is left and
\* demangle returns the error; the ParserState is dropped as it is.
Fail(r) ==
    /\ result' = [st |-> r.st, err |-> r.err]
    /\ stack' = <<>>
    /\ ret' = None
    /\ UNCHANGED <<mangled, profile, returned, input, memorized_names, parse_result, todo, w>>

\* the running activation calls callee and goes on as top when it returns
Call(callee, top) ==
    /\ stack' = <<callee, top>> \o Tail(stack)
    /\ ret' = None

\* the running activation returns v to its caller
Return(v) ==
    /\ stack' = Tail(stack)
    /\ ret' = Some(v)

\* the running activation goes on as top
Goto(top) ==
    /\ stack' = <<top>> \o Tail(stack)
    /\ ret' = None

\* Option<Params>::unwrap_or(Params::empty())
unwrap_or_empty(params) == IF params = None THEN <<>> ELSE params[1]

---------------------------------------------------------------------------
(* ParserState::parse                                                      *)

\* parse without its first check: the name is read whatever the input
\* starts with
Parse_IgnoringPrefix ==
    /\ Running("parse", "start")
    /\ Call(ReadNameFrame, [Top EXCEPT !.pc = "symbol"])
    /\ UNCHANGED <<mangled, profile, returned, input, memorized_names, parse_result,
                   todo, w, result>>

\* the prefix marker, then the call of read_name
Parse ==
    /\ Running("parse", "start")
    /\ IF ~StartsWith(input, "?")
       THEN Fail(Err("does not start with b'?'"))
       ELSE /\ input' = trim(input, 1)
            /\ Call(ReadNameFrame, [Top EXCEPT !.pc = "symbol"])
            /\ UNCHANGED <<mangled, profile, returned, memorized_names, parse_result,
                           todo, w, result>>

\* b'3': a variable
ParseVariable ==
    /\ Returned("parse", "symbol")
    /\ StartsWith(input, "3")
    /\ input' = trim(input, 1)
    /\ Call(ReadVarTypeFrame({}),
            [Top EXCEPT !.pc = "variable", !.symbol = ret[1]])
    /\ UNCHANGED <<mangled, profile, returned, memorized_names, parse_result, todo, w,
                   result>>

\* b'Y': a non-member function, up to the call that reads its return type
ParseNonMemberFunction ==
    /\ Returned("parse", "symbol")
    /\ ~StartsWith(input, "3")
    /\ StartsWith(input, "Y")
    /\ LET cc == read_calling_conv(trim(input, 1))
           sc == read_storage_class_for_return(cc.rest)
       IN  IF cc.st # "ok" THEN Fail(cc)
           ELSE IF sc.st # "ok" THEN Fail(sc)
           ELSE /\ input' = sc.rest
                /\ Call(ReadVarTypeFrame(sc.val),
                        [Top EXCEPT !.pc = "non_member_return",
                                    !.symbol = ret[1]])
                /\ UNCHANGED <<mangled, profile, returned, memorized_names,
                               parse_result, todo, w, result>>

\* any other byte: a member function, up to the call that reads its return
\* type, or its parameters when the return type is the b'@' of a structor
ParseMemberFunction ==
    /\ Returned("parse", "symbol")
    /\ ~StartsWith(input, "3")
    /\ ~StartsWith(input, "Y")
    /\ LET fc == read_func_class(input)
           ac == read_func_access_class(consume(fc.rest, "E"))
           cc == read_calling_conv(ac.rest)
           sc == read_storage_class_for_return(cc.rest)
       IN  IF fc.st # "ok" THEN Fail(fc)
           ELSE IF cc.st # "ok" THEN Fail(cc)
           ELSE IF sc.st # "ok" THEN Fail(sc)
           ELSE /\ IF StartsWith(sc.rest, "@")
                   THEN /\ input' = trim(sc.rest, 1)
                        /\ Call(ReadParamsFrame,
                                [Top EXCEPT !.pc = "member_params",
                                            !.symbol = ret[1],
                                            !.access_class = ac.val,
                                            !.return_type = TypeNone])
                   ELSE /\ input' = sc.rest
                        /\ Call(ReadVarTypeFrame(sc.val),
                                [Top EXCEPT !.pc = "member_return",
                                            !.symbol = ret[1],
                                            !.access_class = ac.val])
                /\ UNCHANGED <<mangled, profile, returned, memorized_names,
                               parse_result, todo, w, result>>

\* the return type is read: the call of read_params
ParseReturnType ==
    /\ \/ Returned("parse", "non_member_return")
       \/ Returned("parse", "member_return")
    /\ Call(ReadParamsFrame,
            [Top EXCEPT !.pc = IF Top.pc = "member_return"
                               THEN "member_params" ELSE "non_member_params",
                        !.return_type = ret[1]])
    /\ UNCHANGED <<mangled, profile, returned, input, memorized_names, parse_result,
                   todo, w, result>>

\* the ParseResult a finished parse returns
symbol_type(top, v) ==
    CASE top.pc = "variable" -> v
      [] top.pc = "non_member_params" ->
            Function("NonMemberFunction", unwrap_or_empty(v), {},
                     top.return_type)
      [] top.pc = "member_params" ->
            Function("MemberFunction", unwrap_or_empty(v), top.access_class,
                     top.return_type)

\* the end of parse, were the input required to be exhausted
ParseOk_RequiringExhaustion ==
    /\ \/ Returned("parse", "variable")
       \/ Returned("parse", "non_member_params")
       \/ Returned("parse", "member_params")
    /\ IF input # "" THEN Fail(Err("trailing input"))
       ELSE /\ parse_result' =
                    Some([symbol |-> Top.symbol,
                          symbol_type |-> symbol_type(Top, ret[1])])
            /\ stack' = <<>>
            /\ ret' = None
            /\ UNCHANGED <<mangled, profile, returned, input, memorized_names,
                           todo, w, result>>

\* Ok(ParseResult { symbol, symbol_type })
ParseOk ==
    /\ \/ Returned("parse", "variable")
       \/ Returned("parse", "non_member_params")
       \/ Returned("parse", "member_params")
    /\ parse_result' = Some([symbol |-> Top.symbol,
                             symbol_type |-> symbol_type(Top, ret[1])])
    /\ stack' = <<>>
    /\ ret' = None
    /\ UNCHANGED <<mangled, profile, returned, input, memorized_names, todo, w, result>>

---------------------------------------------------------------------------
(* ParserState::read_name                                                  *)

ParserFrame == <<mangled, profile, returned, parse_result, todo, w, result>>

\* names.push(name) at the end of an iteration of the while loop
PushName(name) ==
    Goto([Top EXCEPT !.pc = "loop", !.names = Append(Top.names, name)])

\* the name a back-reference digit denotes when the digits count from 1
name_back_reference_from_one(names, i) ==
    IF i = 0 \/ i > Len(names) THEN Err("name reference too large")
    ELSE [st |-> "ok", val |-> Name(names[i], None, None)]

\* the name a back-reference digit i denotes: Err when i is not the index
\* of a memorized name
name_back_reference(names, i) ==
    IF i >= Len(names) THEN Err("name reference too large")
    ELSE [st |-> "ok", val |-> Name(names[i + 1], None, None)]

\* while !self.consume(b"@"): the b'@' that ends the name
ReadNameEnd ==
    /\ Running("read_name", "loop")
    /\ StartsWith(input, "@")
    /\ input' = trim(input, 1)
    /\ Return(Top.names)
    /\ UNCHANGED <<memorized_names>>
    /\ UNCHANGED ParserFrame

\* a digit: a back-reference to a memorized name
ReadNameBackReference ==
    /\ Running("read_name", "loop")
    /\ ~StartsWith(input, "@")
    /\ consume_digit(input).val # None
    /\ LET d == consume_digit(input)
           n == name_back_reference(memorized_names, d.val[1])
       IN  IF n.st # "ok" THEN Fail(n)
           ELSE /\ input' = d.rest
                /\ PushName(n.val)
                /\ UNCHANGED <<memorized_names>>
                /\ UNCHANGED ParserFrame

\* b"?$": a class template, up to the call that reads its arguments
ReadNameTemplate ==
    /\ Running("read_name", "loop")
    /\ ~StartsWith(input, "@")
    /\ consume_digit(input).val = None
    /\ StartsWith(input, "?$")
    /\ LET r == read_string(trim(input, 2))
       IN  IF r.st # "ok" THEN Fail(r)
           ELSE /\ input' = r.rest
                /\ Call(ReadParamsFrame,
                        [Top EXCEPT !.pc = "template", !.name = r.val])
                /\ UNCHANGED <<memorized_names>>
                /\ UNCHANGED ParserFrame

\* the template arguments are read, were the `@` after them optional
ReadNameTemplateEnd_TerminatorOptional ==
    /\ Returned("read_name", "template")
    /\ input' = IF StartsWith(input, "@") THEN trim(input, 1) ELSE input
    /\ PushName(Name(Top.name, None, ret[1]))
    /\ UNCHANGED <<memorized_names>>
    /\ UNCHANGED ParserFrame

\* the template arguments are read: self.expect(b"@")?
ReadNameTemplateEnd ==
    /\ Returned("read_name", "template")
    /\ IF ~StartsWith(input, "@") THEN Fail(Err("@ expected"))
       ELSE /\ input' = trim(input, 1)
            /\ PushName(Name(Top.name, None, ret[1]))
            /\ UNCHANGED <<memorized_names>>
            /\ UNCHANGED ParserFrame

\* b"?": an overloaded operator, up to the call that reads its arguments
ReadNameOperator ==
    /\ Running("read_name", "loop")
    /\ ~StartsWith(input, "@")
    /\ consume_digit(input).val = None
    /\ ~StartsWith(input, "?$")
    /\ StartsWith(input, "?")
    /\ LET r == read_operator(trim(input, 1), memorized_names)
       IN  IF r.st # "ok" THEN Fail(r)
           ELSE /\ input' = r.rest
                /\ memorized_names' = r.names
                /\ Call(ReadParamsFrame,
                        [Top EXCEPT !.pc = "operator",
                                    !.op = r.val[1],
                                    !.name = IF r.val[2] = None THEN ""
                                             ELSE r.val[2][1]])
                /\ UNCHANGED ParserFrame

\* the arguments after the operator are read
ReadNameOperatorEnd ==
    /\ Returned("read_name", "operator")
    /\ PushName(Name(Top.name, Some(Top.op), ret[1]))
    /\ UNCHANGED <<input, memorized_names>>
    /\ UNCHANGED ParserFrame

\* any other byte: a plain identifier, which is memorized
ReadNamePlain ==
    /\ Running("read_name", "loop")
    /\ ~StartsWith(input, "@")
    /\ consume_digit(input).val = None
    /\ ~StartsWith(input, "?")
    /\ LET r == read_string(input)
       IN  IF r.st # "ok" THEN Fail(r)
           ELSE /\ input' = r.rest
                /\ memorized_names' = memorize_string(memorized_names, r.val)
                /\ PushName(Name(r.val, None, None))
                /\ UNCHANGED ParserFrame

---------------------------------------------------------------------------
(* ParserState::read_params                                                *)

\* the type a back-reference digit denotes when the digits count from 1
type_back_reference_from_one(backref, n) ==
    IF n = 0 \/ n > Len(backref) THEN Err("invalid backreference")
    ELSE [st |-> "ok", val |-> backref[n]]

\* the type a back-reference digit n denotes in a parameter list
type_back_reference(backref, n) ==
    IF n >= Len(backref) THEN Err("invalid backreference")
    ELSE [st |-> "ok", val |-> backref[n + 1]]

\* backref were the parameters of one byte memorized as well
memorize_type_of_any_length(backref, param_type, consumed) ==
    IF Len(backref) <= 9 THEN Append(backref, param_type) ELSE backref

\* backref after a parameter that took `consumed` bytes was decoded
memorize_type(backref, param_type, consumed) ==
    IF Len(backref) <= 9 /\ consumed > 1
    THEN Append(backref, param_type)
    ELSE backref

\* the while condition fails on b'@' or b'Z': the list is returned
ReadParamsEnd ==
    /\ Running("read_params", "loop")
    /\ StartsWith(input, "@") \/ StartsWith(input, "Z")
    /\ Return(IF Top.params = <<>> THEN None ELSE Some(Top.params))
    /\ UNCHANGED <<input, memorized_names>>
    /\ UNCHANGED ParserFrame

\* a digit: a back-reference to a type memorized in this list
ReadParamsBackReference ==
    /\ Running("read_params", "loop")
    /\ ~(StartsWith(input, "@") \/ StartsWith(input, "Z"))
    /\ consume_digit(input).val # None
    /\ LET d == consume_digit(input)
           t == type_back_reference(Top.backref, d.val[1])
       IN  IF t.st # "ok" THEN Fail(t)
           ELSE /\ input' = d.rest
                /\ Goto([Top EXCEPT !.params = Append(Top.params, t.val)])
                /\ UNCHANGED <<memorized_names>>
                /\ UNCHANGED ParserFrame

\* any other byte (or none): the call of read_var_type
ReadParamsType ==
    /\ Running("read_params", "loop")
    /\ ~(StartsWith(input, "@") \/ StartsWith(input, "Z"))
    /\ consume_digit(input).val = None
    /\ Call(ReadVarTypeFrame({}),
            [Top EXCEPT !.pc = "param", !.len = Len(input)])
    /\ UNCHANGED <<input, memorized_names>>
    /\ UNCHANGED ParserFrame

\* the parameter is read: it is memorized and pushed
ReadParamsPush ==
    /\ Returned("read_params", "param")
    /\ Goto([Top EXCEPT
                !.pc = "loop",
                !.backref = memorize_type(Top.backref, ret[1],
                                          Top.len - Len(input)),
                !.params = Append(Top.params, ret[1])])
    /\ UNCHANGED <<input, memorized_names>>
    /\ UNCHANGED ParserFrame

---------------------------------------------------------------------------
(* ParserState::read_var_type, read_pointee, read_array, read_func_ptr     *)

\* b"W4": an enum, up to the call that reads its name
ReadVarTypeEnum ==
    /\ Running("read_var_type", "start")
    /\ StartsWith(input, "W4")
    /\ input' = trim(input, 2)
    /\ Call(ReadNameFrame, [Top EXCEPT !.pc = "named", !.tag = "Enum"])
    /\ UNCHANGED <<memorized_names>>
    /\ UNCHANGED ParserFrame

\* b"P6A": return self.read_func_ptr(sc), up to the call that reads the
\* return type of the function pointed to
ReadVarTypeFuncPtr ==
    /\ Running("read_var_type", "start")
    /\ ~StartsWith(input, "W4")
    /\ StartsWith(input, "P6A")
    /\ input' = trim(input, 3)
    /\ Call(ReadVarTypeFrame({}), ReadFuncPtrFrame(Top.sc))
    /\ UNCHANGED <<memorized_names>>
    /\ UNCHANGED ParserFrame

\* the first byte of a type that is neither b"W4" nor b"P6A"
FirstByte(s) ==
    IF StartsWith(s, "W4") \/ StartsWith(s, "P6A") THEN None ELSE peek(s)

\* b'T', b'U', b'V': a union, struct or class, up to the call of read_name
ReadVarTypeNamed ==
    /\ Running("read_var_type", "start")
    /\ FirstByte(input) \in {Some("T"), Some("U"), Some("V")}
    /\ input' = trim(input, 1)
    /\ Call(ReadNameFrame,
            [Top EXCEPT !.pc = "named",
                        !.tag = CASE peek(input) = Some("T") -> "Union"
                                  [] peek(input) = Some("U") -> "Struct"
                                  [] peek(input) = Some("V") -> "Class"])
    /\ UNCHANGED <<memorized_names>>
    /\ UNCHANGED ParserFrame

\* the name of a union, struct, class or enum is read
ReadVarTypeNamedEnd ==
    /\ Returned("read_var_type", "named")
    /\ Return(Named(Top.tag, ret[1], Top.sc))
    /\ UNCHANGED <<input, memorized_names>>
    /\ UNCHANGED ParserFrame

\* b'A', b'P', b'Q': a reference or a pointer; read_pointee skips b'E',
\* reads the pointee's storage class and calls read_var_type
ReadVarTypePointer ==
    /\ Running("read_var_type", "start")
    /\ FirstByte(input) \in {Some("A"), Some("P"), Some("Q")}
    /\ LET storage_class ==
               read_storage_class(consume(trim(input, 1), "E"))
       IN  /\ input' = storage_class.rest
           /\ Call(ReadVarTypeFrame(storage_class.val),
                   [Top EXCEPT
                       !.pc = "pointee",
                       !.tag = IF peek(input) = Some("A") THEN "Ref" ELSE "Ptr",
                       !.sc = IF peek(input) = Some("Q") THEN {"CONST"}
                              ELSE Top.sc])
    /\ UNCHANGED <<memorized_names>>
    /\ UNCHANGED ParserFrame

\* the pointee is read
ReadVarTypePointerEnd ==
    /\ Returned("read_var_type", "pointee")
    /\ Return(Pointer(Top.tag, ret[1], Top.sc))
    /\ UNCHANGED <<input, memorized_names>>
    /\ UNCHANGED ParserFrame

\* ParserState::read_array up to the call of read_nested_array: the
\* dimension count, or the error
\* read_array refusing only the negative dimensions
read_array_allowing_zero(s, prof) ==
    LET dimension == read_number(s, prof)
    IN  IF dimension.st # "ok" THEN dimension
        ELSE IF dimension.val < 0 THEN Err("invalid array dimension")
        ELSE dimension

read_array(s, prof) ==
    LET dimension == read_number(s, prof)
    IN  IF dimension.st # "ok" THEN dimension
        ELSE IF dimension.val <= 0 THEN Err("invalid array dimension")
        ELSE dimension

\* b'Y': an array
ReadVarTypeArray ==
    /\ Running("read_var_type", "start")
    /\ FirstByte(input) = Some("Y")
    /\ LET dimension == read_array(trim(input, 1), profile)
       IN  IF dimension.st # "ok" THEN Fail(dimension)
           ELSE /\ input' = dimension.rest
                /\ Call(ReadNestedArrayFrame(dimension.val),
                        [Top EXCEPT !.pc = "array"])
                /\ UNCHANGED <<memorized_names>>
                /\ UNCHANGED ParserFrame

\* let (array, _) = ...; Ok(array)
ReadVarTypeArrayEnd ==
    /\ Returned("read_var_type", "array")
    /\ Return(ret[1][1])
    /\ UNCHANGED <<input, memorized_names>>
    /\ UNCHANGED ParserFrame

\* the primitive type at the head of s, or the error
read_primitive(s, sc) ==
    LET g == get(s)
    IN  IF g.st # "ok" THEN g
        ELSE IF g.val \in DOMAIN PrimitiveTable
             THEN Ok(Primitive(PrimitiveTable[g.val], sc), g.rest)
        ELSE IF g.val = "_"
             THEN LET h == get(g.rest)
                  IN  IF h.st # "ok" THEN h
                      ELSE IF h.val \in DOMAIN PrimitiveTable2
                           THEN Ok(Primitive(PrimitiveTable2[h.val], sc), h.rest)
                      ELSE Err("unknown primitive type")
        ELSE Err("unknown primitive type")

\* any other byte: a primitive type, or an error (also at the end of input)
ReadVarTypePrimitive ==
    /\ Running("read_var_type", "start")
    /\ ~StartsWith(input, "W4")
    /\ ~StartsWith(input, "P6A")
    /\ peek(input) \notin {Some("T"), Some("U"), Some("V"), Some("A"),
                           Some("P"), Some("Q"), Some("Y")}
    /\ LET t == read_primitive(input, Top.sc)
       IN  IF t.st # "ok" THEN Fail(t)
           ELSE /\ input' = t.rest
                /\ Return(t.val)
                /\ UNCHANGED <<memorized_names>>
                /\ UNCHANGED ParserFrame

\* read_func_ptr: the return type is read; the call of read_params
ReadFuncPtrReturnType ==
    /\ Returned("read_func_ptr", "return_type")
    /\ Call(ReadParamsFrame,
            [Top EXCEPT !.pc = "params", !.return_type = ret[1]])
    /\ UNCHANGED <<input, memorized_names>>
    /\ UNCHANGED ParserFrame

\* read_func_ptr: the parameters are read; an optional b"@Z" or b"Z" is
\* skipped and the pointer to function is returned
ReadFuncPtrEnd ==
    /\ Returned("read_func_ptr", "params")
    /\ input' = IF StartsWith(input, "@Z") THEN trim(input, 2)
                ELSE IF StartsWith(input, "Z") THEN trim(input, 1)
                ELSE input
    /\ Return(Pointer("Ptr",
                      Function("NonMemberFunction", unwrap_or_empty(ret[1]),
                               {}, Top.return_type),
                      Top.sc))
    /\ UNCHANGED <<memorized_names>>
    /\ UNCHANGED ParserFrame

---------------------------------------------------------------------------
(* ParserState::read_nested_array; it returns <<type, storage class>>      *)

\* dimension > 0: the length of this level, then the call for the levels
\* inside it
ReadNestedArrayLength ==
    /\ Running("read_nested_array", "start")
    /\ Top.dimension > 0
    /\ LET len == read_number(input, profile)
       IN  IF len.st # "ok" THEN Fail(len)
           ELSE /\ input' = len.rest
                /\ Call(ReadNestedArrayFrame(Top.dimension - 1),
                        [Top EXCEPT !.pc = "inner", !.len = len.val])
                /\ UNCHANGED <<memorized_names>>
                /\ UNCHANGED ParserFrame

\* the levels inside are read: this level's Array node
ReadNestedArrayInnerEnd ==
    /\ Returned("read_nested_array", "inner")
    /\ Return(<<Array(Top.len, ret[1][1], ret[1][2]), ret[1][2]>>)
    /\ UNCHANGED <<input, memorized_names>>
    /\ UNCHANGED ParserFrame

\* dimension = 0: the optional qualifier, then the call that reads the
\* element type
ReadNestedArrayElement ==
    /\ Running("read_nested_array", "start")
    /\ ~(Top.dimension > 0)
    /\ LET storage_class == read_array_storage_class(input)
       IN  IF storage_class.st # "ok" THEN Fail(storage_class)
           ELSE /\ input' = storage_class.rest
                /\ Call(ReadVarTypeFrame({}),
                        [Top EXCEPT !.pc = "element",
                                    !.storage_class = storage_class.val])
                /\ UNCHANGED <<memorized_names>>
                /\ UNCHANGED ParserFrame

\* the element type is read
ReadNestedArrayElementEnd ==
    /\ Returned("read_nested_array", "element")
    /\ Return(<<ret[1], Top.storage_class>>)
    /\ UNCHANGED <<input, memorized_names>>
    /\ UNCHANGED ParserFrame

---------------------------------------------------------------------------
(* The printer: serialize, write_pre, write_post, write_params,            *)
(* write_name.  todo lists the activations still to run, each with the     *)
(* writes that follow it.                                                  *)

\* write_pre(w, t)
Pre(t) == [k |-> "pre", t |-> t]

\* what write_pre does after the call that printed what t wraps or names
PreEnd(t) == [k |-> "pre_end", t |-> t]

\* write_post(w, t)
Post(t) == [k |-> "post", t |-> t]

\* write_params(w, p)
ParamsTask(types) == [k |-> "params", types |-> types]

\* write_name(w, names)
NameTask(names) == [k |-> "name", names |-> names]

\* one turn of the for loop of write_name over the enclosing scopes
SegmentTask(name) == [k |-> "segment", name |-> name]

\* the innermost name, names.names.first()
FirstTask(name) == [k |-> "first", name |-> name]

\* write!(w, s) after a call
Literal(s) == [k |-> "literal", s |-> s]

\* demangle's Ok(String::from_utf8(s)?)
ReturnTask == [k |-> "return"]

Printing(k) ==
    /\ result.st = "running"
    /\ Len(todo) > 0
    /\ todo[1].k = k

ParserVars == <<mangled, profile, returned, input, memorized_names, stack, ret, parse_result>>

\* the activation at the head of todo ends after appending the tasks
Continue(tasks) == todo' = tasks \o Tail(todo)

\* an arithmetic overflow in the printer, in the debug profile
Abort(msg) ==
    /\ result' = [st |-> "panic", err |-> msg]
    /\ todo' = <<>>
    /\ UNCHANGED w
    /\ UNCHANGED ParserVars

\* write_space were it to separate whatever is not empty
write_space_after_any_byte(out) == IF LastByte(out) # None THEN out \o " " ELSE out

\* write_space
write_space(out) ==
    IF LastByte(out) # None
       /\ (LastByte(out)[1] \in Letters \/ LastByte(out)[1] \in {"*", "&"})
    THEN out \o " "
    ELSE out

\* the end of write_pre: the const of the node's storage class
write_qualifiers(out, storage_class) ==
    IF "CONST" \in storage_class THEN write_space(out) \o "const" ELSE out

\* the text write_pre writes for a primitive type
PrimitiveText ==
    [tag \in {"Void", "Bool", "Char", "Schar", "Uchar", "Short", "Ushort",
              "Int", "Uint", "Long", "Ulong", "Int64", "Uint64", "Wchar",
              "Float", "Double", "Ldouble"} |->
    CASE tag = "Void" -> "void"           [] tag = "Bool" -> "bool"
      [] tag = "Char" -> "char"           [] tag = "Schar" -> "signed char"
      [] tag = "Uchar" -> "unsigned char" [] tag = "Short" -> "short"
      [] tag = "Ushort" -> "unsigned short" [] tag = "Int" -> "int"
      [] tag = "Uint" -> "unsigned int"   [] tag = "Long" -> "long"
      [] tag = "Ulong" -> "unsigned long" [] tag = "Int64" -> "int64_t"
      [] tag = "Uint64" -> "uint64_t"     [] tag = "Wchar" -> "wchar_t"
      [] tag = "Float" -> "float"         [] tag = "Double" -> "double"
      [] tag = "Ldouble" -> "long double"]

\* the keyword write_class is given
ClassKeyword ==
    [tag \in NamedTags |->
    CASE tag = "Struct" -> "struct" [] tag = "Union" -> "union"
      [] tag = "Class" -> "class"   [] tag = "Enum" -> "enum"]

\* the pointee needs parentheses: a function or an array
Grouped(t) == t.inner.tag \in FunctionTags \cup {"Array"}

\* the sigil of a pointer or a reference, after the space write_space gives
write_sigil(out, tag) == write_space(out) \o (IF tag = "Ptr" THEN "*" ELSE "&")

\* serialize(&mut s, &parse_result)
Serialize ==
    /\ result.st = "running"
    /\ parse_result # None
    /\ todo = <<>>
    /\ todo' = <<Pre(parse_result[1].symbol_type),
                 NameTask(parse_result[1].symbol),
                 Post(parse_result[1].symbol_type),
                 ReturnTask>>
    /\ UNCHANGED <<w, result>>
    /\ UNCHANGED ParserVars

\* write_pre, up to its first call or, for a primitive type, to its end
WritePre ==
    /\ Printing("pre")
    /\ LET t == todo[1].t
       IN  CASE t.tag = "None" -> Continue(<<>>) /\ UNCHANGED w
             [] t.tag \in FunctionTags ->
                    Continue(<<Pre(t.inner)>>) /\ UNCHANGED w
             [] t.tag \in PointerTags \cup {"Array"} ->
                    Continue(<<Pre(t.inner), PreEnd(t)>>) /\ UNCHANGED w
             [] t.tag \in NamedTags ->
                    /\ w' = w \o ClassKeyword[t.tag] \o " "
                    /\ Continue(<<NameTask(t.names), PreEnd(t)>>)
             [] OTHER ->
                    /\ w' = write_qualifiers(w \o PrimitiveText[t.tag], t.sc)
                    /\ Continue(<<>>)
    /\ UNCHANGED result
    /\ UNCHANGED ParserVars

\* write_pre of a pointer, reference, array or named type after its call
WritePreEnd ==
    /\ Printing("pre_end")
    /\ LET t == todo[1].t
       IN  w' = IF t.tag \in PointerTags
                THEN write_qualifiers(
                         write_sigil(IF Grouped(t) THEN w \o "(" ELSE w, t.tag),
                         t.sc)
                ELSE write_qualifiers(w, t.sc)
    /\ Continue(<<>>)
    /\ UNCHANGED result
    /\ UNCHANGED ParserVars

\* write_post
WritePost ==
    /\ Printing("post")
    /\ LET t == todo[1].t
       IN  CASE t.tag \in FunctionTags ->
                    /\ w' = w \o "("
                    /\ Continue(<<ParamsTask(t.params),
                                  Literal(IF "CONST" \in t.sc THEN ")const"
                                          ELSE ")")>>)
             [] t.tag \in PointerTags ->
                    /\ w' = IF Grouped(t) THEN w \o ")" ELSE w
                    /\ Continue(<<Post(t.inner)>>)
             [] t.tag = "Array" ->
                    /\ w' = w \o "[" \o IntToStr(t.len) \o "]"
                    /\ Continue(<<Post(t.inner)>>)
             [] OTHER -> Continue(<<>>) /\ UNCHANGED w
    /\ UNCHANGED result
    /\ UNCHANGED ParserVars

\* write_params without the "," between two types
params_tasks_unseparated(types) ==
    LET n == Len(types)
        upto[i \in 0..n] ==
            IF i = 0 THEN <<>>
            ELSE upto[i - 1] \o <<Pre(types[i]), Post(types[i])>>
    IN  upto[n]

\* the calls write_params makes for the types of a list that is not empty
params_tasks(types) ==
    LET n == Len(types)
        one(i) == IF i < n THEN <<Pre(types[i]), Post(types[i]), Literal(",")>>
                  ELSE <<Pre(types[i]), Post(types[i])>>
        upto[i \in 0..n] == IF i = 0 THEN <<>> ELSE upto[i - 1] \o one(i)
    IN  upto[n]

\* write_params: p.types.len() - 1 overflows on an empty list
WriteParams ==
    /\ Printing("params")
    /\ LET types == todo[1].types
       IN  IF Len(types) = 0 /\ profile = "debug"
           THEN Abort("attempt to subtract with overflow")
           ELSE /\ Continue(IF Len(types) = 0 THEN <<>> ELSE params_tasks(types))
                /\ UNCHANGED <<w, result>>
                /\ UNCHANGED ParserVars

\* write_name taking the enclosing scopes in the order they are stored
name_tasks_as_stored(names) ==
    LET n == Len(names)
        outer[i \in 1..n] ==
            IF i = 1 THEN <<>> ELSE outer[i - 1] \o <<SegmentTask(names[i])>>
    IN  outer[n] \o <<FirstTask(names[1])>>

\* the turns of write_name for the names of a sequence that is not empty:
\* the enclosing scopes from the last to the second, then the first
name_tasks(names) ==
    LET n == Len(names)
        outer[i \in 1..n] ==
            IF i = 1 THEN <<>> ELSE <<SegmentTask(names[i])>> \o outer[i - 1]
    IN  outer[n] \o <<FirstTask(names[1])>>

\* write_name: names.names.len() - 1 overflows on an empty sequence
WriteName ==
    /\ Printing("name")
    /\ LET names == todo[1].names
       IN  IF Len(names) = 0 /\ profile = "debug"
           THEN /\ result' = [st |-> "panic",
                              err |-> "attempt to subtract with overflow"]
                /\ todo' = <<>>
                /\ w' = write_space(w)
                /\ UNCHANGED ParserVars
           ELSE /\ w' = write_space(w)
                /\ Continue(IF Len(names) = 0 THEN <<>> ELSE name_tasks(names))
                /\ UNCHANGED result
                /\ UNCHANGED ParserVars

\* the name and "<" of a segment, and what follows: its template
\* arguments, then ">" and tail; or tail at once when it is no template
write_segment(out, name, tail) ==
    IF name.template_params = None
    THEN [w |-> out \o name.name_str \o tail, tasks |-> <<>>]
    ELSE [w |-> out \o name.name_str \o "<",
          tasks |-> <<ParamsTask(name.template_params[1]),
                      Literal(">" \o tail)>>]

\* an enclosing scope: its name, its template arguments and "::"
WriteNameSegment ==
    /\ Printing("segment")
    /\ LET seg == write_segment(w, todo[1].name, "::")
       IN  w' = seg.w /\ Continue(seg.tasks)
    /\ UNCHANGED result
    /\ UNCHANGED ParserVars

\* the text after the class name with a destructor taken for a constructor
structor_tail_without_tilde(name) == "::" \o name.name_str

\* the text after the class name of a constructor or destructor
structor_tail(name) ==
    "::" \o (IF name.op = Some("dtor") THEN "~" ELSE "") \o name.name_str

\* the innermost name: a regular name, a ctor or dtor, or an operator
WriteNameFirst ==
    /\ Printing("first")
    /\ LET name == todo[1].name
       IN  CASE name.op = None ->
                    LET seg == write_segment(w, name, "")
                    IN  w' = seg.w /\ Continue(seg.tasks)
             [] name.op \in {Some("ctor"), Some("dtor")} ->
                    IF name.template_params = None
                    THEN /\ w' = w \o name.name_str \o structor_tail(name)
                         /\ Continue(<<>>)
                    ELSE /\ w' = w \o name.name_str
                         /\ Continue(<<ParamsTask(name.template_params[1]),
                                       Literal(structor_tail(name))>>)
             [] OTHER ->
                    /\ w' = w \o (IF name.name_str # ""
                                  THEN name.name_str \o "::" ELSE "")
                              \o "operator" \o name.op[1]
                    /\ Continue(<<>>)
    /\ UNCHANGED result
    /\ UNCHANGED ParserVars

\* the writes that follow a call
WriteLiteral ==
    /\ Printing("literal")
    /\ w' = w \o todo[1].s
    /\ Continue(<<>>)
    /\ UNCHANGED result
    /\ UNCHANGED ParserVars

\* Ok(String::from_utf8(s)?)
DemangleOk ==
    /\ Printing("return")
    /\ result' = [st |-> "ok", out |-> w]
    /\ todo' = <<>>
    /\ UNCHANGED w
    /\ UNCHANGED ParserVars

---------------------------------------------------------------------------
(* The inputs demangle is given                                            *)

\* symbols of the tests of the repository and of its documentation
Samples ==
    {"", "x@@3HA", "?x@@3HA", "?x@@3PEAHEA", "?x@@3PEAPEAHEA",
     "?x@@3PEAY02HEA", "?x@@3PEAY124HEA", "?x@@3PEAY02$$CBHEA",
     "?x@@3PEAY1NKM@5HEA", "?x@@YAXMH@Z", "?x@@3P6AHMNH@ZEA",
     "?x@@3P6AHP6AHM@ZN@ZEA", "?x@@3P6AHP6AHM@Z0@ZEA", "?x@ns@@3HA",
     "?x@@3PEBHEB", "?x@@3QEAHEB", "?x@@3QEBHEB", "?x@@3AEBHEB",
     "?x@@3PEAUty@@EA", "?x@@3PEATty@@EA", "?x@@3PEAW4ty@@EA",
     "?x@@3PEAVty@@EA", "?x@@3PEAV?$tmpl@H@@EA", "?instance@@3Vklass@@A",
     "??0klass@@QEAA@XZ", "??1klass@@QEAA@XZ", "?x@@YAHPEAVklass@@AEAV1@@Z",
     "?x@ns@@3PEAV?$klass@HH@1@EA", "?fn@?$klass@H@ns@@QEBAIXZ",
     "??4klass@@QEAAAEBV0@AEBV0@@Z", "??Aklass@@QEAAH_K@Z",
     "??_0klass@@QEAAHH@Z", "??6@YAAEBVklass@@AEBV0@H@Z",
     "??_U@YAPEAX_KAEAVklass@@@Z", "??0bad_alloc@std@@QAE@PBD@Z",
     "??0bad_cast@@QAE@ABV0@@Z", "??0strstreambuf@@QAE@PADH0@Z",
     "?_query_new_handler@@YAP6AHI@ZXZ", "?_Sync@ios_base@std@@0_NA",
     "?x@@YAX@Z", "?@3HA", "?x@@3YA@H", "?x@@3Y?0H", "?x@@3Y0A@H",
     "?x@@3Y0?1H", "?x@@3Y0IAAAAAAA@H", "?x@@3Y0?IAAAAAAA@H",
     "?a@a@@YAXPAHPAH@Z", "?x@@YAXPAHP6AX0@Z@Z", "?x@?$t@PAH@@YAX0@Z", "?a@ns@a@1@3H",
     "?0@3H", "?x@@YAX0@Z", "?x@@YAXPAH0@Z",
     "??0bad_exception@std@@QAE@PBD@Z", "??1klass@ns@@QAE@XZ",
     "??4klass@ns@@QAEAAV01@ABV01@@Z", "?x@@3P6AHP6AHM@Z0@ZEA",
     "?x@@YAXPAH01@Z", "?x@@YAXPAHPAM1@Z", "??0strstreambuf@@QAE@PADH0@Z",
     "?x@@YAXPAHH01@Z", "?x@@YAXHPAM0@Z", "?x@@3PEAVk4@@EA",
     "?x@@3PEBVk4@@EA", "?x@?$t@V0@@@3H", "?x@@3PECHEA",
     "?x@@3PEBHEA", "?x@@3PEDHEA", "??$t@@@3H", "??$t@HZ@3H", "??$t@H@@3H",
     "?t@@3H", "?x@?$t@@@3H", "?x@@3PX", "?x@@3PEX", "?x@@3P", "?x@@QXAHXZ",
     "?x@@Q", "?x@@YAHXH", "?x@@YAHXZ3",
     "?x@@YAHXZ"}

\* every string of at most n tokens of T, one after the other
RECURSIVE Concats(_, _)
Concats(T, n) ==
    IF n = 0 THEN {""}
    ELSE LET S == Concats(T, n - 1) IN S \cup {s \o t : s \in S, t \in T}

\* the longest input of ShortInputs
MaxLen == 4

ShortAlphabet == {"?", "@", "x", "0", "3", "H", "Y"}

\* every short string over a few bytes of the grammar
ShortInputs == Concats(ShortAlphabet, MaxLen)

\* the names declared
DeclNames == {"x", "fn", "klass"}

\* the encodings of the primitive types
PrimitiveCodes ==
    DOMAIN PrimitiveTable \cup {"_" \o c : c \in DOMAIN PrimitiveTable2}

\* variables of a primitive type, and of a pointer or reference to one
VariableInputs ==
    {"?" \o n \o "@@3" \o p \o c \o t :
        n \in DeclNames, c \in PrimitiveCodes, t \in {"", "A"},
        p \in {"", "PEA", "PEAPEA", "PA", "AEA", "QEB"}}

\* the most parameters of an input of FunctionInputs
MaxParams == 3

\* the parameter types of FunctionInputs and StructorInputs
ParameterCodes == {"H", "M", "D"}

\* functions whose return type and parameters are primitive
FunctionInputs ==
    {"?" \o n \o "@@YA" \o r \o ps \o "@Z" :
        n \in {"x", "fn"}, r \in {"X", "H", "N"},
        ps \in Concats(ParameterCodes, MaxParams)}

\* constructors and destructors
StructorInputs ==
    {"??" \o k \o c \o "@@" \o m \o "@" \o ps \o z :
        k \in {"0", "1"}, c \in {"klass", "T"}, m \in {"QEAA", "QAE", "AEAA", "UAE"},
        ps \in {"X", "H", "HM", "DHM"}, z \in {"Z", "@Z"}}

\* member functions of klass: the function class, the 64-bit marker, the
\* access byte, the calling convention, the return type and the parameters
MemberInputs ==
    {"?fn@klass@@" \o fc \o e \o a \o cc \o r \o ps \o "Z" :
        fc \in {"Q", "A", "U"}, e \in {"", "E"},
        a \in {"", "A", "B", "C", "D"}, cc \in {"A", "E", "G"},
        r \in {"X", "H"}, ps \in {"X", "H@", "HM@"}}

\* the most letters of a run of NumberRuns built from RunLetters
MaxRun == 3

RunLetters == {"A", "B", "P"}

\* encoded numbers: the digits, runs of letters ended by b'@', among them
\* the greatest i32, 2^31 and a run of nine letters
NumberRuns ==
    Digits \cup {run \o "@" : run \in Concats(RunLetters, MaxRun)}
    \cup {"NKM@", "HPPPPPPP@", "IAAAAAAA@", "AAAAAAAAB@"}

\* what read_number is to refuse: a byte outside A..P or a digit in the run,
\* no b'@' at all
BadNumbers == {"", "B", "BP", "Q@", "x@", "B1@", "Bx@", "BQ@", "B?@"}

\* arrays whose dimension (before == "") or whose one length (before == "0")
\* is each of the numbers, negated or not
NumberInputs ==
    {"?x@@3Y" \o before \o sign \o n \o "H" :
        before \in {"", "0"}, sign \in {"", "?"},
        n \in NumberRuns \cup BadNumbers}

\* encoded pointees with the text before and after their declarator: arrays
\* of one and two dimensions, a const array, and int, which needs no group
Pointees ==
    {[code |-> "Y02H", pre |-> "int", post |-> "[3]", grouped |-> TRUE],
     [code |-> "Y124H", pre |-> "int", post |-> "[3][5]", grouped |-> TRUE],
     [code |-> "Y02$$CBH", pre |-> "intconst", post |-> "[3]",
      grouped |-> TRUE],
     [code |-> "H", pre |-> "int", post |-> "", grouped |-> FALSE]}

\* encoded pointers and references to the pointees, and the pointer to a
\* function int(float,double,int)
PointerTypes ==
    {[code |-> "PEA" \o p.code, pre |-> p.pre, sigil |-> "*",
      post |-> p.post, grouped |-> p.grouped] : p \in Pointees}
    \cup {[code |-> "AEA" \o p.code, pre |-> p.pre, sigil |-> "&",
           post |-> p.post, grouped |-> p.grouped] : p \in Pointees}
    \cup {[code |-> "P6AHMNH@Z", pre |-> "int", sigil |-> "*",
           post |-> "(float,double,int)", grouped |-> TRUE]}

\* the symbol x with the type as its variable type, its one parameter or
\* its return type
PointerSymbol(p, position) ==
    CASE position = "variable" -> "?x@@3" \o p.code \o "EA"
      [] position = "parameter" -> "?x@@YAX" \o p.code \o "@Z"
      [] position = "return" -> "?x@@YA" \o p.code \o "XZ"

Positions == {"variable", "parameter", "return"}

PointerInputs ==
    {PointerSymbol(p, position) : p \in PointerTypes, position \in Positions}

\* the most segments of a name of NameInputs
MaxSegments == 3

\* the segments of the names of NameInputs: identifiers, back-references,
\* templates, operators
NameSegments == {"a@", "ns@", "0", "1", "?$t@HM@", "?0k@", "?4@"}

\* qualified names of every shape, declared as a variable and as a function
NameInputs ==
    {"?" \o ns \o "@" \o t :
        ns \in Concats(NameSegments, MaxSegments), t \in {"3H", "QEBAIXZ"}}

\* the most parameters of an input of ParamsInputs
MaxTypes == 3

\* the entries of the lists of ParamsInputs: one-byte and longer types,
\* back-references, a function pointer with a list of its own
ParamsTokens == {"H", "PAH", "0", "1", "P6AXPAM0@Z", "V?$t@PAN0@@"}

\* parameter lists and template argument lists of every shape
ParamsInputs ==
    {h \o ps \o t : ps \in Concats(ParamsTokens, MaxTypes),
                    h \in {"?x@@YAX"}, t \in {"@Z"}}
    \cup {"?x@?$t@" \o ps \o "@@YAX" \o qs \o "@Z" :
            ps \in Concats(ParamsTokens, 1), qs \in Concats(ParamsTokens, 2)}

\* the longest chain of ChainInputs
MaxChain == 12

ChainNames ==
    <<"a@", "b@", "c@", "d@", "e@", "f@", "g@", "h@", "i@", "j@", "k@", "l@",
      "m@", "n@", "o@", "p@">>

ChainTypes ==
    <<"PAH", "PAD", "PAM", "PAN", "PAX", "PAI", "PAJ", "PAK", "PAF", "PAG",
      "PAE", "PAC", "PAO", "PA_N", "PA_J", "PA_K">>

\* the first k entries of chain, one after the other
Chain(chain, k) ==
    LET upto[i \in 0..k] == IF i = 0 THEN "" ELSE upto[i - 1] \o chain[i]
    IN  upto[k]

\* names of up to MaxChain distinct segments and parameter lists of up to
\* MaxChain distinct memorizable types, with a back-reference after them
ChainInputs ==
    {"?" \o Chain(ChainNames, k) \o d \o "@3H" :
        k \in 0..MaxChain, d \in {"", "0", "9", "a@", "z@"}}
    \cup {"?x@@YAX" \o Chain(ChainTypes, k) \o d \o "@Z" :
            k \in 0..MaxChain, d \in {"", "0", "9", "PAH", "PAPAH"}}
    \cup {"?" \o Chain(ChainNames, k) \o "@YAX" \o Chain(ChainTypes, k) \o "@Z" :
            k \in 1..MaxChain}

\* the most dimensions and the greatest length of ArrayInputs
MaxDimension == 3

\* numbers as read_number reads them
NumberCodes == {"0", "1", "9", "A@", "B@", "BA@", "?0", "?1", "?A@", "?B@"}

\* arrays: a dimension count, then lengths
ArrayInputs ==
    {"?x@@3" \o p \o "Y" \o d \o ls \o q \o "H" :
        p \in {"", "PEA"}, d \in NumberCodes,
        ls \in Concats({"0", "2", "A@", "?1"}, MaxDimension), q \in {"", "$$CB"}}

\* the bytes that follow the qualified name: the branch byte, an optional
\* b'E' and access byte of a member function, the calling convention
BranchBytes == {"", "3", "Y", "Q", "A", "Z", "G", "H", "W", "2", "@"}

BranchInputs ==
    {"?x@@" \o b \o e \o cc \o rest :
        b \in BranchBytes, e \in {"", "E", "EA", "B"},
        cc \in {"", "A", "B", "C", "D", "E", "F", "G", "H", "I", "J", "@"},
        rest \in {"", "HXZ", "H"}}

Inputs ==
    Samples \cup ShortInputs \cup VariableInputs \cup FunctionInputs
    \cup StructorInputs \cup NameInputs \cup ParamsInputs \cup ChainInputs
    \cup ArrayInputs \cup MemberInputs \cup NumberInputs \cup PointerInputs
    \cup BranchInputs

Init ==
    /\ mangled \in Inputs
    /\ profile \in {"debug", "release"}
    /\ input = mangled
    /\ memorized_names = <<>>
    /\ stack = <<ParseFrame>>
    /\ ret = None
    /\ parse_result = None
    /\ todo = <<>>
    /\ w = ""
    /\ result = [st |-> "running"]
    /\ returned = <<>>

Next ==
    \/ Parse
    \/ ParseVariable
    \/ ParseNonMemberFunction
    \/ ParseMemberFunction
    \/ ParseReturnType
    \/ ParseOk
    \/ ReadNameEnd
    \/ ReadNameBackReference
    \/ ReadNameTemplate
    \/ ReadNameTemplateEnd
    \/ ReadNameOperator
    \/ ReadNameOperatorEnd
    \/ ReadNamePlain
    \/ ReadParamsEnd
    \/ ReadParamsBackReference
    \/ ReadParamsType
    \/ ReadParamsPush
    \/ ReadVarTypeEnum
    \/ ReadVarTypeFuncPtr
    \/ ReadVarTypeNamed
    \/ ReadVarTypeNamedEnd
    \/ ReadVarTypePointer
    \/ ReadVarTypePointerEnd
    \/ ReadVarTypeArray
    \/ ReadVarTypeArrayEnd
    \/ ReadVarTypePrimitive
    \/ ReadFuncPtrReturnType
    \/ ReadFuncPtrEnd
    \/ ReadNestedArrayLength
    \/ ReadNestedArrayInnerEnd
    \/ ReadNestedArrayElement
    \/ ReadNestedArrayElementEnd
    \/ Serialize
    \/ WritePre
    \/ WritePreEnd
    \/ WritePost
    \/ WriteParams
    \/ WriteName
    \/ WriteNameSegment
    \/ WriteNameFirst
    \/ WriteLiteral
    \/ DemangleOk

Spec == Init /\ [][Next]_vars

\* the most calls of demangle in one behaviour of SpecCalls
MaxCalls == 3

\* the inputs of the calls after the first: names and parameter lists with
\* back-references, with and without what they refer to
CallInputs ==
    {"x@@3HA", "?0@3H", "?a@ns@a@1@3H", "?x@@YAX0@Z", "?x@@YAXPAH0@Z",
     "?x@@YAX@Z", "?x@@3H", "?x@@3H@?$", "?x@@YAHX@"}

\* another call whose ParserState keeps the names of the call before
Demangle_KeepingNames ==
    /\ result.st \in {"ok", "err"}
    /\ Len(returned) < MaxCalls - 1
    /\ returned' = Append(returned, [mangled |-> mangled, result |-> result])
    /\ mangled' \in CallInputs
    /\ input' = mangled'
    /\ stack' = <<ParseFrame>>
    /\ ret' = None
    /\ parse_result' = None
    /\ todo' = <<>>
    /\ w' = ""
    /\ result' = [st |-> "running"]
    /\ UNCHANGED <<profile, memorized_names>>

\* the caller, to whom demangle has returned, calls it again: a new
\* ParserState and a new output buffer are made for the call
Demangle ==
    /\ result.st \in {"ok", "err"}
    /\ Len(returned) < MaxCalls - 1
    /\ returned' = Append(returned, [mangled |-> mangled, result |-> result])
    /\ mangled' \in CallInputs
    /\ input' = mangled'
    /\ memorized_names' = <<>>
    /\ stack' = <<ParseFrame>>
    /\ ret' = None
    /\ parse_result' = None
    /\ todo' = <<>>
    /\ w' = ""
    /\ result' = [st |-> "running"]
    /\ UNCHANGED profile

\* a first call on a symbol of Samples
InitCalls == mangled \in Samples /\ Init

NextCalls == Next \/ Demangle

\* up to MaxCalls calls of demangle, one after the other
SpecCalls == InitCalls /\ [][NextCalls]_vars


---------------------------------------------------------------------------
(* What the specification says of demangle                                 *)

\* demangle has returned
Done == result.st # "running"

\* demangle has returned Ok(out)
Returns(out) == result = [st |-> "ok", out |-> out]

\* the text of the primitive type encoded as code
Spelling(code) ==
    IF Len(code) = 1 THEN PrimitiveText[PrimitiveTable[code]]
    ELSE PrimitiveText[PrimitiveTable2[SubSeq(code, 2, 2)]]

\* the texts of the primitive types encoded by the bytes of codes, with ","
\* between them
RECURSIVE SpellingList(_)
SpellingList(codes) ==
    IF Len(codes) = 1 THEN Spelling(codes)
    ELSE Spelling(SubSeq(codes, 1, 1)) \o "," \o SpellingList(Tail(codes))

\* C1: an input whose first byte is not `?`, the empty input included, makes
\* demangle return an error at its first step: nothing of the input is
\* consumed, no name is memorized, no symbol is decoded and no byte of output
\* is written.
C1_MissingPrefixIsAnError ==
    ~StartsWith(mangled, "?") =>
        /\ result.st \in {"running", "err"}
        /\ result.st = "running" => stack = <<ParseFrame>>
        /\ result.st = "err" =>
              /\ result.err = "does not start with b'?'"
              /\ stack = <<>>
        /\ input = mangled
        /\ memorized_names = <<>>
        /\ ret = None
        /\ parse_result = None
        /\ todo = <<>>
        /\ w = ""

C1_Witness ==
    /\ mangled \in {"", "x@@3HA"}
    /\ result = [st |-> "err", err |-> "does not start with b'?'"]

\* C2: a pointer variable is printed with no space on either side of `*`:
\* "?x@@3PEAHEA" as "int*x", "?x@@3PEAPEAHEA" as "int**x" and
\* "?x@@3PEAY02HEA" as "int(*x)[3]".
C2_PointerWithoutSpaces ==
    Done =>
        /\ mangled = "?x@@3PEAHEA" => Returns("int*x")
        /\ mangled = "?x@@3PEAPEAHEA" => Returns("int**x")
        /\ mangled = "?x@@3PEAY02HEA" => Returns("int(*x)[3]")
        /\ \A n \in DeclNames, c \in PrimitiveCodes, t \in {"", "A"} :
              mangled = "?" \o n \o "@@3PEA" \o c \o t =>
                  Returns(Spelling(c) \o "*" \o n)

\* C3: a variable of a primitive type is printed as `<type> <name>`, and a
\* function whose return type and parameters are primitive as
\* `<ret> <name>(<p1>,...,<pn>)`, with no space after a comma:
\* "?x@@3HA" is "int x" and "?x@@YAXMH@Z" is "void x(float,int)".
C3_PrimitiveDeclarations ==
    Done =>
        /\ mangled = "?x@@3HA" => Returns("int x")
        /\ mangled = "?x@@YAXMH@Z" => Returns("void x(float,int)")
        /\ \A n \in DeclNames, c \in PrimitiveCodes, t \in {"", "A"} :
              mangled = "?" \o n \o "@@3" \o c \o t =>
                  Returns(Spelling(c) \o " " \o n)
        /\ mangled \in FunctionInputs =>
              \A n \in {"x", "fn"}, r \in {"X", "H", "N"},
                 ps \in Concats(ParameterCodes, MaxParams) \ {""} :
                  mangled = "?" \o n \o "@@YA" \o r \o ps \o "@Z" =>
                      Returns(Spelling(r) \o " " \o n
                              \o "(" \o SpellingList(ps) \o ")")

C3_Witness ==
    /\ mangled = "?fn@@YANDHM@Z"
    /\ Returns("double fn(char,int,float)")

ScopeSegments == {"a@", "ns@", "?$t@HM@"}

\* the Name read_name makes of a segment of ScopeSegments
ScopeName(segment) ==
    IF segment = "?$t@HM@"
    THEN Name("t", None,
              Some(<<Primitive("Int", {}), Primitive("Float", {})>>))
    ELSE Name(SubSeq(segment, 1, Len(segment) - 1), None, None)

\* the text of a segment of ScopeSegments
ScopeText(segment) ==
    IF segment = "?$t@HM@" THEN "t<int,float>"
    ELSE SubSeq(segment, 1, Len(segment) - 1)

\* the segments of f one after the other, as they are encoded
Encoded(f) ==
    LET n == Len(f)
        upto[i \in 0..n] == IF i = 0 THEN "" ELSE upto[i - 1] \o f[i]
    IN  upto[n]

\* the name nk::...::n1::n0 of the segments n0, n1, ..., nk of f
Qualified(f) ==
    LET n == Len(f)
        upto[i \in 1..n] ==
            IF i = 1 THEN ScopeText(f[1])
            ELSE ScopeText(f[i]) \o "::" \o upto[i - 1]
    IN  upto[n]

\* C5: a qualified name is stored innermost first, in the order encoded, and
\* printed outermost first: the segments n0, n1, ..., nk are printed as
\* nk::...::n1::n0, a template segment with its arguments in `<...>`;
\* "?x@ns@@3HA" is "int ns::x" and the name of "?fn@?$klass@H@ns@@QEBAIXZ" is
\* printed as ns::klass<int>::fn.
C5_QualifiedNames ==
    /\ Done =>
          /\ mangled = "?x@ns@@3HA" => Returns("int ns::x")
          /\ mangled = "?fn@?$klass@H@ns@@QEBAIXZ" =>
                Returns("unsigned int ns::klass<int>::fn(void)const")
    /\ mangled \in NameInputs /\ parse_result # None =>
          \A k \in 1..MaxSegments :
              \A f \in [1..k -> ScopeSegments] :
                  mangled = "?" \o Encoded(f) \o "@3H" =>
                      /\ parse_result[1].symbol = [i \in 1..k |-> ScopeName(f[i])]
                      /\ Done => Returns("int " \o Qualified(f))

C5_Witness ==
    /\ mangled = "?a@?$t@HM@ns@@3H"
    /\ parse_result # None
    /\ parse_result[1].symbol[1].name_str = "a"
    /\ parse_result[1].symbol[3].name_str = "ns"
    /\ Returns("int ns::t<int,float>::a")

\* the activations of read_params in progress
ParamsFrames == {i \in DOMAIN stack : stack[i].fn = "read_params"}

\* the caches hold at most 10 entries
WithinCapacity ==
    /\ Len(memorized_names) <= 10
    /\ \A i \in ParamsFrames : Len(stack[i].backref) <= 10

\* read_name is about to read a plain identifier
AtPlainName ==
    /\ Running("read_name", "loop")
    /\ ~StartsWith(input, "@")
    /\ consume_digit(input).val = None
    /\ ~StartsWith(input, "?")
    /\ read_string(input).st = "ok"

\* read_params has just decoded a parameter from more than one byte
AtLongParameter ==
    /\ Returned("read_params", "param")
    /\ Top.len - Len(input) > 1

\* C6: at every point of a call the name cache holds at most 10 names and the
\* type cache of every parameter list being decoded at most 10 types; a name
\* or type met when its cache is full is decoded and used like any other, is
\* not stored, and is no error.
C6_CachesHoldAtMostTen ==
    [][/\ WithinCapacity
       /\ WithinCapacity'
       /\ AtPlainName /\ Len(memorized_names) = 10 =>
             /\ memorized_names' = memorized_names
             /\ result' = result
             /\ stack' = <<[Top EXCEPT !.names =
                               Append(@, Name(read_string(input).val,
                                              None, None))]>>
                         \o Tail(stack)
       /\ AtLongParameter /\ Len(Top.backref) = 10 =>
             /\ result' = result
             /\ stack' = <<[Top EXCEPT !.pc = "loop",
                                       !.params = Append(@, ret[1])]>>
                         \o Tail(stack)]_vars

C6_Witness ==
    /\ Running("read_params", "loop")
    /\ Len(Top.params) = 11
    /\ Len(Top.backref) = 10
    /\ Top.params[11] \notin Range(Top.backref)
    /\ Len(stack[Len(stack)].symbol) = 11
    /\ Len(memorized_names) = 10
    /\ stack[Len(stack)].symbol[11].name_str \notin Range(memorized_names)

\* no two entries of cache are equal
NoTwoEqual(cache) ==
    \A i, j \in DOMAIN cache : cache[i] = cache[j] => i = j

\* C7 (as claimed): insertion into each of the two caches is idempotent, so
\* neither the name cache nor the type cache of any parameter list ever holds
\* two equal entries.
C7_BothCachesIdempotent ==
    /\ NoTwoEqual(memorized_names)
    /\ \A i \in ParamsFrames : NoTwoEqual(stack[i].backref)

\* C7 (amended): insertion into the name cache is idempotent, so the name
\* cache never holds two equal names; insertion into the type cache of a
\* parameter list is not: a parameter decoded from more than one byte is
\* appended whenever the cache holds fewer than 10 types, also when an equal
\* type is already in it.
C7_OnlyNameCacheIdempotent ==
    [][/\ NoTwoEqual(memorized_names)
       /\ NoTwoEqual(memorized_names')
       /\ AtPlainName /\ read_string(input).val \in Range(memorized_names) =>
             memorized_names' = memorized_names
       /\ AtLongParameter /\ Len(Top.backref) < 10 =>
             stack'[1].backref = Append(Top.backref, ret[1])]_vars

C7_Witness ==
    /\ mangled = "?a@a@@YAXPAHPAH@Z"
    /\ Running("read_params", "loop")
    /\ Len(Top.backref) = 2
    /\ Top.backref[1] = Top.backref[2]
    /\ Len(stack[Len(stack)].symbol) = 2
    /\ memorized_names = <<"a">>

\* read_params is about to read a back-reference digit
AtTypeDigit ==
    /\ Running("read_params", "loop")
    /\ ~(StartsWith(input, "@") \/ StartsWith(input, "Z"))
    /\ Len(input) > 0
    /\ At(input, 1) \in Digits

\* the step starts an activation of read_params
StartsParams ==
    /\ Len(stack') = Len(stack) + 1
    /\ stack'[1].fn = "read_params"

\* demangle has returned the error msg
Fails(msg) == result = [st |-> "err", err |-> msg]

AtNameDigit ==
    /\ Running("read_name", "loop")
    /\ Len(input) > 0
    /\ At(input, 1) \in Digits

\* C9: in a name, a back-reference digit d is an error when d is not less than
\* the number of names memorized so far in the call, as any digit before the
\* first memorized name is; otherwise it yields a segment that is the d-th
\* memorized name, counting from 0 in the order of insertion, with no operator
\* and no template arguments.
C9_NameBackReference ==
    [][/\ AtNameDigit =>
             LET d == DigitVal[At(input, 1)]
             IN  IF d >= Len(memorized_names)
                 THEN /\ Fails("name reference too large")'
                      /\ parse_result' = None
                 ELSE /\ result' = result
                      /\ memorized_names' = memorized_names
                      /\ stack' = <<[Top EXCEPT !.names =
                                        Append(@, Name(memorized_names[d + 1],
                                                       None, None))]>>
                                  \o Tail(stack)
       /\ Done' =>
             /\ mangled \in {"?0@3H", "?a@1@3H"} =>
                   Fails("name reference too large")'
             /\ mangled = "?a@ns@a@1@3H" => Returns("int ns::a::ns::a")'
             /\ \A k \in 0..MaxChain :
                   mangled = "?" \o Chain(ChainNames, k) \o "9@3H" =>
                       IF k < 10 THEN Fails("name reference too large")'
                       ELSE parse_result'[1].symbol[k + 1] =
                                Name("j", None, None)]_vars

C9_Witness ==
    /\ mangled = "?a@ns@a@1@3H"
    /\ Running("read_name", "loop")
    /\ memorized_names = <<"a", "ns">>
    /\ Top.names = <<Name("a", None, None), Name("ns", None, None),
                     Name("a", None, None), Name("ns", None, None)>>

\* the encodings of NumberCodes that stand for 0 or a negative number: the
\* hexadecimal 0, and a `?` before any encoding
NotPositiveCodes == {"A@", "?0", "?1", "?A@", "?B@"}

\* mangled declares a variable that is an array, or a pointer to an array,
\* whose dimension count is 0 or negative
NotPositiveDimension ==
    \E p \in {"", "PEA"}, d \in NotPositiveCodes :
        StartsWith(mangled, "?x@@3" \o p \o "Y" \o d)

\* C10: decoding an array type whose dimension count is 0 or negative, as in
\* `YA@...` and `Y?0...`, is an error: no array is built and nothing is
\* written.
C10_ArrayDimensionNotPositive ==
    NotPositiveDimension =>
        /\ Done => Fails("invalid array dimension")
        /\ \A i \in DOMAIN stack : stack[i].fn # "read_nested_array"
        /\ parse_result = None
        /\ todo = <<>>
        /\ w = ""

C10_Witness ==
    /\ mangled \in {"?x@@3YA@H", "?x@@3PEAY?0H"}
    /\ Fails("invalid array dimension")

\* C11 (as claimed): for every input demangle returns a string or an error
\* and never aborts: the printer cannot fail on an AST the decoder makes, not
\* on a function whose parameter list is empty ("?x@@YAX@Z") nor on a symbol
\* whose name is empty ("?@3HA").
C11_NeverAborts == result.st \in {"running", "ok", "err"}

\* s ends with suffix
EndsWith(s, suffix) ==
    /\ Len(s) >= Len(suffix)
    /\ SubSeq(s, Len(s) - Len(suffix) + 1, Len(s)) = suffix

\* the number of "(" of s still open after its last byte, counted from
\* open; -1 when a ")" of s closes nothing
RECURSIVE Unclosed(_, _)
Unclosed(s, open) ==
    IF open < 0 \/ s = "" THEN open
    ELSE Unclosed(Tail(s), CASE At(s, 1) = "(" -> open + 1
                             [] At(s, 1) = ")" -> open - 1
                             [] OTHER -> open)

\* C12 (as claimed): every output has balanced parentheses: each "(" written
\* before a pointer or reference to a function or an array is closed by a ")"
\* after it; for a function that returns a pointer to a function
\* ("?_query_new_handler@@YAP6AHI@ZXZ") the group is closed after the
\* function's own parameter list and followed by the parameter list of the
\* function returned.
C12_BalancedParentheses ==
    result.st = "ok" =>
        /\ Unclosed(result.out, 0) = 0
        /\ mangled = "?_query_new_handler@@YAP6AHI@ZXZ" =>
              EndsWith(result.out, "_query_new_handler(void))(unsigned int)")

\* C13: demangle is deterministic and keeps no state between calls: a call
\* returns what every earlier call with the same input returned, the same
\* string or the same error, whatever calls were made before it or between
\* the two.
C13_SameInputSameResult ==
    Done =>
        \A i \in DOMAIN returned :
            returned[i].mangled = mangled => returned[i].result = result

C13_Witness ==
    /\ Len(returned) = 2
    /\ returned[1].mangled = "?0@3H"
    /\ returned[2].mangled = "?a@ns@a@1@3H"
    /\ returned[2].result.st = "ok"
    /\ mangled = "?0@3H"
    /\ result = [st |-> "err", err |-> "name reference too large"]

\* an iteration of the name loop begins: the input does not begin with b'@'
NameIteration == Running("read_name", "loop") /\ ~StartsWith(input, "@")

\* an iteration of the parameter-list loop begins with a digit
DigitIteration ==
    /\ Running("read_params", "loop")
    /\ ~(StartsWith(input, "@") \/ StartsWith(input, "Z"))
    /\ consume_digit(input).val # None

\* an iteration of the parameter-list loop that read a type is at its end
TypeIteration == Returned("read_params", "param")

\* a level of array nesting begins
ArrayLevel == Running("read_nested_array", "start") /\ Top.dimension > 0

\* the step removes at least one byte from the input or ends the call with
\* an error
ConsumesOrFails ==
    \/ Len(input') < Len(input)
    \/ result'.st = "err"

\* C14 (as claimed): every iteration of the name loop, of the parameter-list
\* loop and every level of array nesting removes at least one byte from the
\* input or ends the call with an error, and the call ends with Ok or Err
\* only.
C14_AlwaysReachesOkOrErr ==
    [][/\ NameIteration \/ DigitIteration \/ ArrayLevel => ConsumesOrFails
       /\ TypeIteration => Len(input) < Top.len
       /\ Done' => result'.st \in {"ok", "err"}]_vars

\* the text the symbol is to begin with: the enclosing scope, the class and
\* the constructor, destructor or operator of the class
ScopedMemberText ==
    [m \in {"??0bad_alloc@std@@QAE@PBD@Z", "??0bad_exception@std@@QAE@PBD@Z",
            "??1klass@ns@@QAE@XZ", "??4klass@ns@@QAEAAV01@ABV01@@Z"} |->
        CASE m = "??0bad_alloc@std@@QAE@PBD@Z" -> "std::bad_alloc::bad_alloc("
          [] m = "??0bad_exception@std@@QAE@PBD@Z" ->
                 "std::bad_exception::bad_exception("
          [] m = "??1klass@ns@@QAE@XZ" -> "ns::klass::~klass("
          [] OTHER -> "class ns::klass & ns::klass::operator=("]

\* C15 (as claimed): a symbol whose innermost name segment is a constructor,
\* destructor or operator code with its class name, followed by enclosing
\* scopes, decodes successfully and prints the scopes outermost first before
\* the class name.
C15_StructorInEnclosingScope ==
    Done /\ mangled \in DOMAIN ScopedMemberText =>
        /\ result.st = "ok"
        /\ StartsWith(result.out, ScopedMemberText[mangled])

\* the access byte of a member function, s being its encoding from the
\* function class on: the byte after the class byte and the 64-bit marker
\* b'E', when it is one of A..D
AccessByte(s) ==
    LET rest == consume(trim(s, 1), "E")
    IN  IF peek(rest) \in {Some("A"), Some("B"), Some("C"), Some("D")}
        THEN peek(rest)
        ELSE None

RECURSIVE Run(_)
Run(s) ==
    IF s = "" \/ At(s, 1) = "@" THEN ""
    ELSE At(s, 1) \o Run(Tail(s))

\* the run without its leading zeros
RECURSIVE Significant(_)
Significant(run) ==
    IF StartsWith(run, "A") THEN Significant(Tail(run)) ELSE run

\* the value of the run fits a signed 32-bit integer
FitsI32(run) ==
    LET sig == Significant(run)
    IN  \/ Len(sig) < 8
        \/ Len(sig) = 8 /\ HexVal[At(sig, 1)] <= 7

\* the big-endian base-16 value of a run of letters, A = 0 .. P = 15
RECURSIVE RunValue(_)
RunValue(run) ==
    IF run = "" THEN 0
    ELSE 16 * RunValue(SubSeq(run, 1, Len(run) - 1))
         + HexVal[At(run, Len(run))]

\* a level of an array has read its length and goes on
LengthRead == ArrayLevel /\ result'.st = "running"

\* C17: read_number decodes a single digit d as d + 1, consuming one byte,
\* and otherwise a run of k >= 0 letters A..P ended by `@` as the big-endian
\* base-16 value of the run, consuming k + 1 bytes; a leading `?` negates the
\* result.  For every run whose value fits a signed 32-bit integer the result
\* is that value: `NKM@` is 3500 and `HPPPPPPP@` is 2147483647.
C17_NumberDecoding ==
    [][/\ LengthRead =>
            LET neg  == StartsWith(input, "?")
                body == IF neg THEN Tail(input) ELSE input
                sign == IF neg THEN -1 ELSE 1
                len  == stack'[2].len
            IN  IF At(body, 1) \in Digits
                THEN /\ len = sign * (DigitVal[At(body, 1)] + 1)
                     /\ input' = Tail(body)
                ELSE /\ \A i \in 1..Len(Run(body)) :
                            At(Run(body), i) \in HexLetters
                     /\ input' = trim(body, Len(Run(body)) + 1)
                     /\ FitsI32(Run(body)) => len = sign * RunValue(Run(body))
       /\ LengthRead /\ StartsWith(input, "NKM@") => stack'[2].len = 3500
       /\ LengthRead /\ StartsWith(input, "HPPPPPPP@") =>
            stack'[2].len = 2147483647]_vars

C17_Witness ==
    /\ mangled = "?x@@3Y0?NKM@H"
    /\ result = [st |-> "ok", out |-> "int x[-3500]"]

\* a number encoded at the head of s is to be refused: after an optional `?`
\* s does not begin with a digit, and a byte outside A..P comes before the
\* first `@` or there is no `@`
Refused(s) ==
    LET body == IF StartsWith(s, "?") THEN Tail(s) ELSE s
        run  == Run(body)
    IN  /\ ~(Len(body) > 0 /\ At(body, 1) \in Digits)
        /\ \/ \E i \in 1..Len(run) : At(run, i) \notin HexLetters
           \/ Len(run) = Len(body)

\* the step calls read_number for the dimension of an array
ArrayDimension ==
    Running("read_var_type", "start") /\ StartsWith(input, "Y")

\* C18: read_number fails whenever the input, after an optional `?`, does
\* not start with a digit and a byte outside A..P occurs before the first
\* `@` or the input ends before any `@` (a digit inside a run of letters is
\* such a byte), and the failure ends the whole decode with this error.
C18_BadNumber ==
    [][/\ ArrayLevel /\ Refused(input) =>
            result' = Err("bad number") /\ stack' = <<>>
       /\ ArrayDimension /\ Refused(Tail(input)) =>
            result' = Err("bad number") /\ stack' = <<>>]_vars

C18_Witness ==
    /\ mangled = "?x@@3Y0?B1@H"
    /\ result = Err("bad number")
    /\ parse_result = None

AtParameter ==
    /\ Running("read_params", "loop")
    /\ ~(StartsWith(input, "@") \/ StartsWith(input, "Z"))
    /\ ~AtTypeDigit

\* C20: a decoded parameter is memorized in the type cache of its list if
\* and only if its encoding consumed more than one byte of input and the
\* cache holds fewer than 10 entries; a primitive of one byte takes no
\* back-reference index, so that in `PADH0` the digit 0 denotes `char *`.
C20_MemorizedWhenLong ==
    [][/\ AtParameter /\ result'.st = "running" => stack'[2].len = Len(input)
       /\ TypeIteration =>
            LET consumed == Top.len - Len(input)
            IN  /\ stack'[1].params = Append(Top.params, ret[1])
                /\ stack'[1].backref =
                      IF consumed > 1 /\ Len(Top.backref) < 10
                      THEN Append(Top.backref, ret[1])
                      ELSE Top.backref
       /\ Done' =>
            /\ mangled = "??0strstreambuf@@QAE@PADH0@Z" =>
                  result' = [st |-> "ok",
                             out |-> "strstreambuf::strstreambuf(char *,int,char *)"]
            /\ mangled = "?x@@YAXHPAM0@Z" =>
                  result' = [st |-> "ok", out |-> "void x(int,float *,float *)"]
            /\ mangled = "?x@@YAXPAHH01@Z" =>
                  result' = Err("invalid backreference")]_vars

C20_Witness ==
    /\ mangled = "??0strstreambuf@@QAE@PADH0@Z"
    /\ Running("read_params", "loop")
    /\ input = "0@Z"
    /\ Top.params = <<Pointer("Ptr", Primitive("Char", {}), {}),
                      Primitive("Int", {})>>
    /\ Top.backref = <<Pointer("Ptr", Primitive("Char", {}), {})>>

\* out followed by text, with one space between them if and only if out is
\* not empty and its last byte is an ASCII letter, `*` or `&`
Spaced(out, text) ==
    IF out # "" /\ At(out, Len(out)) \in Letters \cup {"*", "&"}
    THEN out \o " " \o text
    ELSE out \o text

\* out followed by `const` when the qualifiers hold it
Qualified_(out, sc) == IF "CONST" \in sc THEN Spaced(out, "const") ELSE out

RECURSIVE Unspaced(_)
Unspaced(s) ==
    IF s = "" THEN ""
    ELSE (IF At(s, 1) = " " THEN "" ELSE At(s, 1)) \o Unspaced(Tail(s))

\* the declarator of the type around the text declared: the pointee's
\* prefix, the group with the sigil and declared, the pointee's suffix
Declarator(p, declared) ==
    IF p.grouped
    THEN p.pre \o "(" \o p.sigil \o declared \o ")" \o p.post
    ELSE p.pre \o p.sigil \o declared \o p.post

\* the output expected, without spaces, for the type in the position
PointerText(p, position) ==
    CASE position = "variable" -> Declarator(p, "x")
      [] position = "parameter" -> "voidx(" \o Declarator(p, "") \o ")"
      [] position = "return" -> Declarator(p, "x(void)")

\* a pointer or reference, in the positions given, prints as its declarator
PrintsDeclarator(positions) ==
    \A p \in PointerTypes, position \in positions :
        Done /\ mangled = PointerSymbol(p, position) =>
            /\ result.st = "ok"
            /\ Unspaced(result.out) = PointerText(p, position)

\* C22 (as claimed): for a pointer or reference whose pointee is a function
\* or an array the printer emits, spaces ignored, the pointee's prefix, `(`,
\* the sigil, the declared name (nothing for a parameter), `)` and the
\* pointee's suffix: `(params)` for a function, the `[length]` groups from
\* the outermost to the innermost for an array; for any other pointee it
\* emits no parenthesis.
C22_GroupedPointee == PrintsDeclarator(Positions)

\* the name cache with name added, unless it holds the name or is full
Added(names, name) ==
    IF Len(names) < 10 /\ \A i \in DOMAIN names : names[i] # name
    THEN Append(names, name)
    ELSE names

\* the kind of the name segment an iteration of the name loop begins with
SegmentKind ==
    CASE At(input, 1) \in Digits -> "back-reference"
      [] StartsWith(input, "?$") -> "template"
      [] StartsWith(input, "?") -> "operator"
      [] OTHER -> "plain"

\* the first step of an iteration of the name loop, when it does not fail
SegmentRead == NameIteration /\ Len(input) > 0 /\ result'.st = "running"

IsPrefix(before, after) ==
    /\ Len(before) <= Len(after)
    /\ \A i \in DOMAIN before : after[i] = before[i]

-----------------------------------------------------------------------------
\* the byte at the head of s, "" at the end of the input
NextByte(s) == IF s = "" THEN "" ELSE At(s, 1)

\* s without its first byte when that byte is one of bytes
Past(s, bytes) == IF NextByte(s) \in bytes /\ s # "" THEN trim(s, 1) ELSE s

\* the byte read as the calling convention: the one after b'Y', or the one
\* after a member function's class byte, its optional b'E' and its optional
\* access byte
ConventionByte(s) ==
    IF NextByte(s) = "Y" THEN NextByte(trim(s, 1))
    ELSE NextByte(Past(Past(trim(s, 1), {"E"}), {"A", "B", "C", "D"}))

\* the step after the qualified name goes on in the branch named branch
Branches(branch) ==
    /\ result'.st = "running"
    /\ Len(stack') = 2
    /\ stack'[2].fn = "parse"
    /\ stack'[2].pc \in branch

-----------------------------------------------------------------------------
\* sub occurs in s
Occurs(s, sub) ==
    \E i \in 1..Len(s) : StartsWith(SubSeq(s, i, Len(s)), sub)

\* a number that is not positive is encoded at the head of s: zero is A@,
\* a negative number begins with `?`
NotPositiveExtent(s) == StartsWith(s, "A@") \/ StartsWith(s, "?")

\* C26: no empty or negative array is ever decoded: every Array node made
\* has a length of at least 1, an extent encoded as A@ or as `?` and a
\* number is rejected, and no output holds [0] or a negative extent
C26_ArrayLengthPositive ==
    [][/\ Returned("read_nested_array", "inner") => Top.len >= 1
       /\ ArrayLevel /\ NotPositiveExtent(input) => result'.st = "err"
       /\ Done' /\ result'.st = "ok" =>
            ~Occurs(result'.out, "[0]") /\ ~Occurs(result'.out, "[-")]_vars

-----------------------------------------------------------------------------
\* the text written for a qualifier
QualifierText == [CONST |-> "const", VOLATILE |-> "volatile"]

\* the text the step writes
Written == SubSeq(w', Len(w) + 1, Len(w'))

\* C27: in the prefix phase the qualifiers of a node are written after the
\* node's own text or sigil: every qualifier decoded into the node's
\* qualifier set (const, and the others such as volatile) appears in the
\* output, so that two symbols that differ only in volatile (the pointee
\* qualifier byte A or C, B or D) are printed differently
C27_QualifiersPrinted ==
    [][/\ \/ Printing("pre_end")
          \/ Printing("pre") /\ todo[1].t.tag \in DOMAIN PrimitiveText
          => \A q \in todo[1].t.sc \cap DOMAIN QualifierText :
                Occurs(Written, QualifierText[q])
       /\ Done' =>
            /\ mangled = "?x@@3PEAHEA" =>
                  result' = [st |-> "ok", out |-> "int * x"]
            /\ mangled = "?x@@3PECHEA" =>
                  result'.st = "ok" /\ result'.out # "int * x"
            /\ mangled = "?x@@3PEBHEA" =>
                  result' = [st |-> "ok", out |-> "int const * x"]
            /\ mangled = "?x@@3PEDHEA" =>
                  result'.st = "ok" /\ result'.out # "int const * x"]_vars

-----------------------------------------------------------------------------
\* template arguments as a Name holds them: absent, or at least one type
AbsentOrSome(template_params) ==
    \/ template_params = None
    \/ Len(template_params[1]) >= 1

\* the step appends a Name to the names of the running read_name
NamePushed ==
    /\ result.st = "running" /\ result'.st = "running"
    /\ Len(stack) > 0 /\ Len(stack') > 0
    /\ Top.fn = "read_name" /\ stack'[1].fn = "read_name"
    /\ Len(stack') = Len(stack)
    /\ Len(stack'[1].names) = Len(Top.names) + 1

\* C28: a `?$` template segment requires an `@` directly after its argument
\* list and fails otherwise; every Name the decoder produces has template
\* arguments either absent or holding at least one type, so that a template
\* segment with no arguments (`?$t@@`) gives the Name of a non-template and
\* is printed without `<>`
C28_TemplateArguments ==
    [][/\ Returned("read_name", "template") =>
            IF StartsWith(input, "@")
            THEN /\ input' = Tail(input)
                 /\ NamePushed
                 /\ stack'[1].names =
                        Append(Top.names, Name(Top.name, None, ret[1]))
                 /\ ret[1] = None =>
                        stack'[1].names[Len(stack'[1].names)]
                            = [name_str |-> Top.name, op |-> None,
                               template_params |-> None]
            ELSE result' = Err("@ expected") /\ stack' = <<>>
       /\ NamePushed =>
            AbsentOrSome(stack'[1].names[Len(stack'[1].names)].template_params)
       /\ Done' =>
            /\ mangled = "??$t@@@3H" => result' = [st |-> "ok", out |-> "int t"]
            /\ mangled = "?t@@3H" => result' = [st |-> "ok", out |-> "int t"]
            /\ mangled = "?x@?$t@@@3H" =>
                  result' = [st |-> "ok", out |-> "int t::x"]
            /\ mangled = "??$t@H@@3H" =>
                  result' = [st |-> "ok", out |-> "int t<int>"]
            /\ mangled = "??$t@HZ@3H" => result' = Err("@ expected")
            /\ result'.st = "ok" => ~Occurs(result'.out, "<>")]_vars

\* the template segment without arguments is decoded and printed
C28_Witness ==
    /\ mangled = "??$t@@@3H"
    /\ result = [st |-> "ok", out |-> "int t"]
    /\ parse_result # None

-----------------------------------------------------------------------------
\* the bytes of the input the finished decode has consumed
Consumed == SubSeq(mangled, 1, Len(mangled) - Len(input))

\* the decoded symbol is a function: its parameter list ended at a
\* terminator that is not consumed
FunctionDecoded ==
    /\ parse_result # None
    /\ parse_result[1].symbol_type.tag \in FunctionTags

\* other differs from the input of the finished call in the bytes that
\* call left unconsumed only
SameUpToRemaining(other) == StartsWith(other, Consumed)

\* other differs from the input of the finished call only after the type of
\* a variable, or after the terminator of a function's parameter list, which
\* is `@` or `Z` in both
SameUpToTerminator(other) ==
    /\ SameUpToRemaining(other)
    /\ FunctionDecoded =>
            NextByte(trim(other, Len(Consumed))) \in {"@", "Z"}

-----------------------------------------------------------------------------
\* the prefixes consume is called with
Prefixes == {"@", "?", "?$", "3", "Y", "E", "B", "$$C", "P6A", "W4", "Z"}

\* the readers that need not match leave the cursor s where it is, and give
\* their empty value, when what they look for is not at its head
LeftUnchanged(s) ==
    /\ peek(s) = IF s = "" THEN None ELSE Some(At(s, 1))
    /\ \A p \in Prefixes : ~StartsWith(s, p) => consume(s, p) = s
    /\ NextByte(s) \notin Digits =>
            consume_digit(s) = [val |-> None, rest |-> s]
    /\ NextByte(s) \notin {"A", "B", "C", "D", "E", "F", "G", "H"} =>
            read_storage_class(s) = [val |-> {}, rest |-> s]
    /\ NextByte(s) \notin {"A", "B", "C", "D"} =>
            read_func_access_class(s) = [val |-> {}, rest |-> s]

\* the step reads the pointee of a pointer or a reference
PointeeRead ==
    /\ Running("read_var_type", "start")
    /\ NextByte(input) \in {"A", "P", "Q"}
    /\ ~StartsWith(input, "P6A")

\* C30: throughout a decode what remains of the input is a suffix of the
\* original input and never grows; peek, a consume or consume_digit that
\* does not match, and read_storage_class and read_func_access_class at a
\* byte outside A..H and A..D or at the end of the input, leave what remains
\* unchanged and give no error
C30_CursorOnlyAdvances ==
    [][/\ EndsWith(mangled, input) /\ EndsWith(mangled, input')
       /\ EndsWith(input, input')
       /\ Len(input') <= Len(input)
       /\ LeftUnchanged(input) /\ LeftUnchanged(input')
       /\ PointeeRead =>
            LET s == Past(Tail(input), {"E"})
            IN  NextByte(s) \notin {"A", "B", "C", "D", "E", "F", "G", "H"} =>
                    /\ input' = s
                    /\ result'.st = "running"
                    /\ stack'[1] = ReadVarTypeFrame({})
       /\ Returned("parse", "symbol") /\ NextByte(input) \in FuncClassBytes
          /\ NextByte(input) # "Y" =>
            LET s == Past(Tail(input), {"E"})
            IN  NextByte(s) \notin {"A", "B", "C", "D"} /\ result'.st = "running"
                    => /\ EndsWith(s, input')
                       /\ Len(input') < Len(s)
                       /\ stack'[2].access_class = {}]_vars

\* a pointer whose pointee has no qualifier byte: read_storage_class met X
C30_Witness ==
    /\ mangled = "?x@@3PX"
    /\ input = ""
    /\ result = [st |-> "ok", out |-> "void * x"]
=============================================================================
